---------------------------- MODULE Spec2Model ----------------------------
(***************************************************************************)
(* FarmTech irrigation monitoring: the irrigation decision engines, the    *)
(* canonical reading store (db_manager / services) and the store of the    *)
(* unified application (app.py).                                           *)
(*                                                                         *)
(* Humidity (%), pH and rain (mm) are fixed-point numbers in tenths:       *)
(* 15.0 % is 150, pH 5.5 is 55, 1.0 mm is 10.  The engines only compare    *)
(* their inputs with the thresholds, so the order of the tenths decides    *)
(* every branch exactly as the order of the floats does.                   *)
(***************************************************************************)
EXTENDS Integers, FiniteSets, Sequences, TLC

VARIABLES
    params,      \* the 'logica_esp32' thresholds in use (self.params / cfg_logica)
    umidade,     \* engine input: soil humidity, tenths of %
    ph,          \* engine input: estimated pH, tenths
    fosforo,     \* engine input: phosphorus present
    potassio,    \* engine input: potassium present
    chuva_mm,    \* engine input: forecast rain, tenths of mm
    engine,      \* which engine was called ("none" before the call)
    out,         \* what the called engine returned
    leituras_sensores_phd_v2,  \* canonical store: the rows of the table
    utcnow,      \* the clock read by the timestamp default
    last,        \* the last store call: operation, id and timestamp given,
                 \* value returned, whether it raised
    given,       \* id -> the values a reading was added with, while no
                 \* update or delete of that id has been issued since
    leituras_sensores,  \* app.py: the rows of its table
    sqlite_sequence,    \* app.py: the AUTOINCREMENT counter of its table
    listener,    \* WokwiListener: running and simulation_active (its
                 \* thresholds self.params are the variable params), and
                 \* where its loop is
    manager,     \* WokwiListenerManager: its listeners by name
    first,       \* the first call of the listener's engine: thresholds,
                 \* arguments and result
    erp_config_yaml,  \* the file erp_config.yaml
    config,      \* the calls of get_config so far and what the last returned
    setup_erp,   \* setup_erp.main: position, results of the steps, report
    args,        \* the function of the analysis layer to call, and its arguments
    ret          \* what that call returned or raised

engineVars == <<params, umidade, ph, fosforo, potassio, chuva_mm, engine, out>>
storeVars == <<leituras_sensores_phd_v2, utcnow, last, given>>
appVars == <<leituras_sensores, sqlite_sequence>>
listenerVars == <<listener, first, manager>>
configVars == <<erp_config_yaml, config>>
toolVars == <<setup_erp, args, ret>>
vars == <<engineVars, storeVars, appVars, listenerVars, configVars, toolVars>>

----------------------------------------------------------------------------
(* Thresholds *)

\* config_manager.get_config: default_config['logica_esp32'] (the same
\* numbers are repeated in WokwiListener.__init__ and in app.CONFIG)
default_logica_esp32 ==
    [UMIDADE_CRITICA_BAIXA        |-> 150,
     UMIDADE_MINIMA_PARA_IRRIGAR  |-> 200,
     UMIDADE_ALTA_PARAR_IRRIGACAO |-> 600,
     PH_IDEAL_MINIMO              |-> 55,
     PH_IDEAL_MAXIMO              |-> 65,
     PH_CRITICO_MINIMO            |-> 45,
     PH_CRITICO_MAXIMO            |-> 75]

\* app.CONFIG: the thresholds hard-coded in the unified application
CONFIG == default_logica_esp32

\* a 'logica_esp32' section as get_config loads it from an edited
\* erp_config.yaml (the thresholds are configurable)
yaml_logica_esp32 ==
    [UMIDADE_CRITICA_BAIXA        |-> 250,
     UMIDADE_MINIMA_PARA_IRRIGAR  |-> 350,
     UMIDADE_ALTA_PARAR_IRRIGACAO |-> 700,
     PH_IDEAL_MINIMO              |-> 60,
     PH_IDEAL_MAXIMO              |-> 70,
     PH_CRITICO_MINIMO            |-> 50,
     PH_CRITICO_MAXIMO            |-> 80]

\* get_config(): the loaded section, or the defaults
get_config == {default_logica_esp32, yaml_logica_esp32}

----------------------------------------------------------------------------
(* Bounds of the inputs *)

\* how many tenths around each threshold are enumerated
Spread == 1
\* largest humidity (100.0 %), pH (14.0) and rain (2.0 mm) enumerated
MaxUmidade == 1000
MaxPh == 140
MaxChuva == 20

\* the inputs of the scenarios of the tests and of the specification
ScenarioUmidade == {100, 180, 400, 700}
ScenarioPh == {60, 80}

Around(c) == {c + d : d \in (0 - Spread)..Spread}

UmidadeValues(p) ==
    {0, MaxUmidade} \cup ScenarioUmidade
      \cup Around(p.UMIDADE_CRITICA_BAIXA)
      \cup Around(p.UMIDADE_MINIMA_PARA_IRRIGAR)
      \cup Around(p.UMIDADE_ALTA_PARAR_IRRIGACAO)

PhValues(p) ==
    {0, MaxPh} \cup ScenarioPh
      \cup Around(p.PH_IDEAL_MINIMO) \cup Around(p.PH_IDEAL_MAXIMO)
      \cup Around(p.PH_CRITICO_MINIMO) \cup Around(p.PH_CRITICO_MAXIMO)

\* the rain threshold of simular_logica_irrigacao_app (1.0 mm) is 10
ChuvaValues == {0, 5, 9, 10, 11, MaxChuva}

----------------------------------------------------------------------------
(* WokwiListener: the canonical engine *)

\* mutant: the ideal pH band compared strictly (its bounds excluded)
irrigate_low_humidity_strict(p, ph_, phosphorus, potassium) ==
    IF p.PH_IDEAL_MINIMO < ph_ /\ ph_ < p.PH_IDEAL_MAXIMO
    THEN IF phosphorus /\ potassium
         THEN [pump |-> TRUE, reason |-> "Umidade baixa, pH ideal, nutrientes OK"]
         ELSE IF phosphorus \/ potassium
         THEN [pump |-> TRUE, reason |-> "Umidade baixa, pH ideal, nutrientes parciais"]
         ELSE [pump |-> TRUE, reason |-> "Umidade baixa, pH ideal, sem nutrientes"]
    ELSE [pump |-> FALSE, reason |-> "Umidade baixa, mas pH não ideal"]

\* _simulate_irrigation_logic, the branch humidity < UMIDADE_MINIMA_PARA_IRRIGAR
irrigate_low_humidity(p, ph_, phosphorus, potassium) ==
    IF p.PH_IDEAL_MINIMO <= ph_ /\ ph_ <= p.PH_IDEAL_MAXIMO
    THEN IF phosphorus /\ potassium
         THEN [pump |-> TRUE, reason |-> "Umidade baixa, pH ideal, nutrientes OK"]
         ELSE IF phosphorus \/ potassium
         THEN [pump |-> TRUE, reason |-> "Umidade baixa, pH ideal, nutrientes parciais"]
         ELSE [pump |-> TRUE, reason |-> "Umidade baixa, pH ideal, sem nutrientes"]
    ELSE [pump |-> FALSE, reason |-> "Umidade baixa, mas pH não ideal"]

\* _simulate_irrigation_logic, the last two returns
no_irrigation(p, humidity) ==
    IF humidity > p.UMIDADE_ALTA_PARAR_IRRIGACAO
    THEN [pump |-> FALSE, reason |-> "Umidade alta - Irrigação desnecessária"]
    ELSE [pump |-> FALSE, reason |-> "Condições normais - Bomba desligada"]

\* mutant: the low-humidity rule is skipped while a stored reading has the
\* pump on
_simulate_irrigation_logic_reads_store(p, humidity, ph_, phosphorus, potassium) ==
    IF humidity < p.UMIDADE_CRITICA_BAIXA
    THEN [pump |-> TRUE, reason |-> "EMERGÊNCIA: Umidade crítica"]
    ELSE IF ph_ < p.PH_CRITICO_MINIMO \/ ph_ > p.PH_CRITICO_MAXIMO
    THEN [pump |-> FALSE, reason |-> "pH crítico - Irrigação bloqueada"]
    ELSE IF /\ humidity < p.UMIDADE_MINIMA_PARA_IRRIGAR
            /\ \A r \in leituras_sensores_phd_v2 : r.bomba_ligada /= <<1>>
    THEN irrigate_low_humidity(p, ph_, phosphorus, potassium)
    ELSE no_irrigation(p, humidity)

\* mutant: the pH rule evaluated before the humidity rule
_simulate_irrigation_logic_ph_first(p, humidity, ph_, phosphorus, potassium) ==
    IF ph_ < p.PH_CRITICO_MINIMO \/ ph_ > p.PH_CRITICO_MAXIMO
    THEN [pump |-> FALSE, reason |-> "pH crítico - Irrigação bloqueada"]
    ELSE IF humidity < p.UMIDADE_CRITICA_BAIXA
    THEN [pump |-> TRUE, reason |-> "EMERGÊNCIA: Umidade crítica"]
    ELSE IF humidity < p.UMIDADE_MINIMA_PARA_IRRIGAR
    THEN irrigate_low_humidity(p, ph_, phosphorus, potassium)
    ELSE no_irrigation(p, humidity)

\* mutant: critical pH forces irrigation instead of blocking it
_simulate_irrigation_logic_ph_forces(p, humidity, ph_, phosphorus, potassium) ==
    IF humidity < p.UMIDADE_CRITICA_BAIXA
    THEN [pump |-> TRUE, reason |-> "EMERGÊNCIA: Umidade crítica"]
    ELSE IF ph_ < p.PH_CRITICO_MINIMO \/ ph_ > p.PH_CRITICO_MAXIMO
    THEN [pump |-> TRUE, reason |-> "pH crítico - Irrigação bloqueada"]
    ELSE IF humidity < p.UMIDADE_MINIMA_PARA_IRRIGAR
    THEN irrigate_low_humidity(p, ph_, phosphorus, potassium)
    ELSE no_irrigation(p, humidity)

\* mutant: the irrigation threshold compared with <=
_simulate_irrigation_logic_le_minima(p, humidity, ph_, phosphorus, potassium) ==
    IF humidity < p.UMIDADE_CRITICA_BAIXA
    THEN [pump |-> TRUE, reason |-> "EMERGÊNCIA: Umidade crítica"]
    ELSE IF ph_ < p.PH_CRITICO_MINIMO \/ ph_ > p.PH_CRITICO_MAXIMO
    THEN [pump |-> FALSE, reason |-> "pH crítico - Irrigação bloqueada"]
    ELSE IF humidity <= p.UMIDADE_MINIMA_PARA_IRRIGAR
    THEN irrigate_low_humidity(p, ph_, phosphorus, potassium)
    ELSE no_irrigation(p, humidity)

\* WokwiListener._simulate_irrigation_logic: (deve_ligar_bomba, motivo).
\* The reason is the fixed text of the f-string, without the numbers.
_simulate_irrigation_logic(p, humidity, ph_, phosphorus, potassium) ==
    IF humidity < p.UMIDADE_CRITICA_BAIXA
    THEN [pump |-> TRUE, reason |-> "EMERGÊNCIA: Umidade crítica"]
    ELSE IF ph_ < p.PH_CRITICO_MINIMO \/ ph_ > p.PH_CRITICO_MAXIMO
    THEN [pump |-> FALSE, reason |-> "pH crítico - Irrigação bloqueada"]
    ELSE IF humidity < p.UMIDADE_MINIMA_PARA_IRRIGAR
    THEN irrigate_low_humidity(p, ph_, phosphorus, potassium)
    ELSE no_irrigation(p, humidity)

\* WokwiListener.simulate_wokwi_data from the decision on: the reading
\* built for sensor values (humidity, ph_, phosphorus, potassium)
simulate_wokwi_data(p, humidity, ph_, phosphorus, potassium) ==
    LET d == _simulate_irrigation_logic(p, humidity, ph_, phosphorus, potassium)
        emergency == \/ humidity < p.UMIDADE_CRITICA_BAIXA
                     \/ ph_ < p.PH_CRITICO_MINIMO
                     \/ ph_ > p.PH_CRITICO_MAXIMO
    IN [umidade |-> humidity, ph_estimado |-> ph_,
        fosforo_presente |-> phosphorus, potassio_presente |-> potassium,
        bomba_ligada |-> d.pump, decisao_logica_esp32 |-> d.reason,
        emergencia |-> emergency]

----------------------------------------------------------------------------
(* The engines of the dashboards *)

\* data_analysis.simular_logica_irrigacao
simular_logica_irrigacao(umidade_, ph_, p) ==
    IF \/ umidade_ < p.UMIDADE_CRITICA_BAIXA
       \/ ~(p.PH_CRITICO_MINIMO < ph_ /\ ph_ < p.PH_CRITICO_MAXIMO)
    THEN [decisao |-> "Ligar bomba (EMERGÊNCIA)",
          justificativa |-> IF umidade_ < p.UMIDADE_CRITICA_BAIXA
                            THEN "EMERGÊNCIA: Umidade abaixo do crítico."
                            ELSE "EMERGÊNCIA: pH fora da faixa crítica.",
          emergencia |-> TRUE]
    ELSE IF umidade_ < p.UMIDADE_MINIMA_PARA_IRRIGAR
    THEN IF ~(p.PH_IDEAL_MINIMO < ph_ /\ ph_ < p.PH_IDEAL_MAXIMO)
         THEN [decisao |-> "Manter bomba desligada",
               justificativa |-> "Umidade baixa, mas pH fora do ideal.",
               emergencia |-> FALSE]
         ELSE [decisao |-> "Ligar bomba",
               justificativa |-> "Umidade ideal para irrigar.",
               emergencia |-> FALSE]
    ELSE IF umidade_ > p.UMIDADE_ALTA_PARAR_IRRIGACAO
    THEN [decisao |-> "Manter bomba desligada",
          justificativa |-> "Umidade acima do necessário.",
          emergencia |-> FALSE]
    ELSE [decisao |-> "Manter bomba desligada",
          justificativa |-> "Condições normais.",
          emergencia |-> FALSE]

\* the decisions of simular_logica_irrigacao that switch the pump on
DecisaoLiga == {"Ligar bomba (EMERGÊNCIA)", "Ligar bomba"}

\* mutant: the rain threshold compared with >=
simular_logica_irrigacao_app_ge(umidade_, ph_, p_, k_, cfg, chuva) ==
    LET base ==
          IF umidade_ < cfg.UMIDADE_CRITICA_BAIXA
          THEN [pump |-> TRUE, reason |-> "EMERGÊNCIA: Umidade crítica"]
          ELSE IF ph_ < cfg.PH_CRITICO_MINIMO \/ ph_ > cfg.PH_CRITICO_MAXIMO
          THEN [pump |-> FALSE, reason |-> "pH crítico"]
          ELSE IF umidade_ < cfg.UMIDADE_MINIMA_PARA_IRRIGAR
          THEN IF cfg.PH_IDEAL_MINIMO <= ph_ /\ ph_ <= cfg.PH_IDEAL_MAXIMO
               THEN IF p_ /\ k_
                    THEN [pump |-> TRUE, reason |-> "Umid. baixa, pH ideal, P&K OK"]
                    ELSE IF p_ \/ k_
                    THEN [pump |-> TRUE, reason |-> "Umid. baixa, pH ideal, P ou K OK"]
                    ELSE [pump |-> TRUE, reason |-> "Umid. baixa, pH ideal, Nutrientes Ausentes"]
               ELSE [pump |-> FALSE, reason |-> "Umid. baixa, mas pH não ideal"]
          ELSE IF umidade_ > cfg.UMIDADE_ALTA_PARAR_IRRIGACAO
          THEN [pump |-> FALSE, reason |-> "Umidade alta"]
          ELSE [pump |-> FALSE, reason |-> "Condições padrão, bomba desligada."]
    IN IF base.pump /\ chuva >= 10
       THEN [pump |-> FALSE, base |-> base.reason,
             reason |-> "DECISÃO BASE: Ligar. AJUSTE CLIMA: DESLIGAR (Chuva)."]
       ELSE [pump |-> base.pump, base |-> base.reason,
             reason |-> IF chuva > 0 THEN "(Chuva)" ELSE "(Sem chuva prevista)"]

\* legacy dashboard.simular_logica_irrigacao_app: (ligar_bomba, motivo);
\* base is the decision before the rain adjustment
simular_logica_irrigacao_app(umidade_, ph_, p_, k_, cfg, chuva) ==
    LET base ==
          IF umidade_ < cfg.UMIDADE_CRITICA_BAIXA
          THEN [pump |-> TRUE, reason |-> "EMERGÊNCIA: Umidade crítica"]
          ELSE IF ph_ < cfg.PH_CRITICO_MINIMO \/ ph_ > cfg.PH_CRITICO_MAXIMO
          THEN [pump |-> FALSE, reason |-> "pH crítico"]
          ELSE IF umidade_ < cfg.UMIDADE_MINIMA_PARA_IRRIGAR
          THEN IF cfg.PH_IDEAL_MINIMO <= ph_ /\ ph_ <= cfg.PH_IDEAL_MAXIMO
               THEN IF p_ /\ k_
                    THEN [pump |-> TRUE, reason |-> "Umid. baixa, pH ideal, P&K OK"]
                    ELSE IF p_ \/ k_
                    THEN [pump |-> TRUE, reason |-> "Umid. baixa, pH ideal, P ou K OK"]
                    ELSE [pump |-> TRUE, reason |-> "Umid. baixa, pH ideal, Nutrientes Ausentes"]
               ELSE [pump |-> FALSE, reason |-> "Umid. baixa, mas pH não ideal"]
          ELSE IF umidade_ > cfg.UMIDADE_ALTA_PARAR_IRRIGACAO
          THEN [pump |-> FALSE, reason |-> "Umidade alta"]
          ELSE [pump |-> FALSE, reason |-> "Condições padrão, bomba desligada."]
    IN IF base.pump /\ chuva > 10
       THEN [pump |-> FALSE, base |-> base.reason,
             reason |-> "DECISÃO BASE: Ligar. AJUSTE CLIMA: DESLIGAR (Chuva)."]
       ELSE [pump |-> base.pump, base |-> base.reason,
             reason |-> IF chuva > 0 THEN "(Chuva)" ELSE "(Sem chuva prevista)"]

\* services.run_what_if_simulation: (ligar, motivo)
services_run_what_if_simulation(cfg, umidade_, ph_, fosforo_, potassio_) ==
    IF umidade_ < cfg.UMIDADE_MINIMA_PARA_IRRIGAR
    THEN [pump |-> TRUE, reason |-> "Ligar: Umidade abaixo do mínimo"]
    ELSE IF umidade_ > cfg.UMIDADE_ALTA_PARAR_IRRIGACAO
    THEN [pump |-> FALSE, reason |-> "Desligar: Umidade acima do ideal"]
    ELSE [pump |-> FALSE, reason |-> "Manter desligada: Umidade está dentro da faixa ideal."]

\* app.run_what_if_simulation: (bomba_ligada, justificativa); the
\* justification is the list that the code joins with "; "
app_run_what_if_simulation(umidade_, ph_, fosforo_, potassio_) ==
    LET byUmidade ==
          IF umidade_ < CONFIG.UMIDADE_CRITICA_BAIXA
          THEN [pump |-> TRUE, j |-> <<"Umidade crítica - irrigação emergencial">>]
          ELSE IF umidade_ < CONFIG.UMIDADE_MINIMA_PARA_IRRIGAR
          THEN [pump |-> TRUE, j |-> <<"Umidade baixa - irrigação necessária">>]
          ELSE IF umidade_ > CONFIG.UMIDADE_ALTA_PARAR_IRRIGACAO
          THEN [pump |-> FALSE, j |-> <<"Umidade alta - não irrigar">>]
          ELSE [pump |-> FALSE, j |-> <<"Umidade adequada">>]
        byPh ==
          IF ph_ < CONFIG.PH_CRITICO_MINIMO \/ ph_ > CONFIG.PH_CRITICO_MAXIMO
          THEN <<"pH crítico - atenção necessária">> ELSE <<>>
        byNutrientes ==
          IF ~fosforo_ \/ ~potassio_
          THEN <<"Deficiência nutricional detectada">> ELSE <<>>
    IN [pump |-> byUmidade.pump, reason |-> byUmidade.j \o byPh \o byNutrientes]

----------------------------------------------------------------------------
(* The canonical store: db_manager.LeituraSensor and services             *)
(*                                                                         *)
(* A Python value is a tuple: <<v>> is the value v and <<>> is None.  A    *)
(* stored column value is a tuple too: <<>> is NULL.  Timestamps are       *)
(* integers (instants of the clock).                                       *)

\* bounds: the largest id and the latest instant of the clock
MaxId == 2
MaxTime == 2

\* LeituraSensor: the columns of the table
Columns ==
    {"id", "timestamp", "umidade", "ph_estimado", "fosforo_presente",
     "potassio_presente", "temperatura", "bomba_ligada",
     "decisao_logica_esp32", "emergencia"}

\* the columns declared Boolean
BooleanColumns ==
    {"fosforo_presente", "potassio_presente", "bomba_ligada", "emergencia"}

\* the columns declared nullable=False (the primary key included)
NotNullColumns == Columns \ {"temperatura", "decisao_logica_esp32"}

\* the attributes of a LeituraSensor instance that hasattr finds: its
\* columns and its method
Attributes == Columns \cup {"to_dict"}

\* the fields a reading is given at creation and returns when read back
ValueFields == Columns \ {"id", "timestamp"}

\* mutant: the Boolean encoding inverted on the way in
bind_inverted(c, v) ==
    IF v = <<>> THEN <<>>
    ELSE IF c \in BooleanColumns THEN <<IF v[1] THEN 0 ELSE 1>>
    ELSE v

\* Column types, Python value -> stored value: a Boolean is stored as 0/1
bind(c, v) ==
    IF v = <<>> THEN <<>>
    ELSE IF c \in BooleanColumns THEN <<IF v[1] THEN 1 ELSE 0>>
    ELSE v

\* Column types, stored value -> Python value
result(c, s) ==
    IF s = <<>> THEN <<>>
    ELSE IF c \in BooleanColumns THEN <<s[1] = 1>>
    ELSE s

\* LeituraSensor(**kwargs): the attributes not named are None
LeituraSensor(kwargs) ==
    [c \in Columns |-> IF c \in DOMAIN kwargs THEN kwargs[c] ELSE <<>>]

\* the instance the ORM loads from a row
Loaded(row) == [c \in Columns |-> result(c, row[c])]

Max(S) == CHOOSE x \in S : \A y \in S : y <= x

\* INTEGER PRIMARY KEY without AUTOINCREMENT: one more than the largest id
NextRowId(tbl) ==
    IF tbl = {} THEN 1 ELSE Max({r.id[1] : r \in tbl}) + 1

\* the row an INSERT of the instance writes: the id is assigned by the
\* store and a missing timestamp takes the column default (utcnow)
InsertRow(tbl, obj, now) ==
    [c \in Columns |->
        IF c = "id" /\ obj[c] = <<>> THEN <<NextRowId(tbl)>>
        ELSE IF c = "timestamp" /\ obj[c] = <<>> THEN <<now>>
        ELSE bind(c, obj[c])]

\* mutant: the timestamp column declared without unique=True
Accepts_no_unique(tbl, row) ==
    /\ \A c \in NotNullColumns : row[c] /= <<>>
    /\ \A r \in tbl : r.id /= row.id

\* the constraints of the table: NOT NULL columns, primary key, and
\* unique=True on timestamp.  row can be added to the rows tbl
Accepts(tbl, row) ==
    /\ \A c \in NotNullColumns : row[c] /= <<>>
    /\ \A r \in tbl : r.id /= row.id
    /\ \A r \in tbl : r.timestamp /= row.timestamp

\* session_scope: commit when the body succeeded, rollback (and re-raise)
\* when it raised.  tbl are the rows before, written the rows after
session_scope(tbl, ok, written) == IF ok THEN written ELSE tbl

\* sess.get(LeituraSensor, leitura_id): the rows with that primary key
RowsById(tbl, leitura_id) == {r \in tbl : r.id = <<leitura_id>>}

\* get_ultimas_leituras(db_session, limit): the instances of the `limit`
\* most recent rows, most recent first
RECURSIVE get_ultimas_leituras(_, _)
get_ultimas_leituras(tbl, limit) ==
    IF tbl = {} \/ limit = 0 THEN <<>>
    ELSE LET newest == CHOOSE r \in tbl :
                           \A q \in tbl : q.timestamp[1] <= r.timestamp[1]
         IN <<Loaded(newest)>> \o get_ultimas_leituras(tbl \ {newest}, limit - 1)

\* mutant: a value None of campos is skipped
UpdatedRow_skips_none(row, campos) ==
    [c \in Columns |->
        IF c \in DOMAIN campos /\ c \in Attributes /\ campos[c] /= <<>>
        THEN bind(c, campos[c]) ELSE row[c]]

\* the row after setattr(leitura, k, v) for every k of campos that
\* hasattr finds; an attribute that is no column changes no row
UpdatedRow(row, campos) ==
    [c \in Columns |->
        IF c \in DOMAIN campos /\ c \in Attributes
        THEN bind(c, campos[c]) ELSE row[c]]

(* Inputs of the store operations *)

\* the reading of tests/test_db.py
KwargsTest ==
    [umidade |-> <<655>>, temperatura |-> <<282>>, ph_estimado |-> <<68>>,
     fosforo_presente |-> <<TRUE>>, potassio_presente |-> <<TRUE>>,
     bomba_ligada |-> <<TRUE>>,
     decisao_logica_esp32 |-> <<"EMERGENCIA: Umidade Baixa">>,
     emergencia |-> <<TRUE>>]

\* a reading without the nullable fields
KwargsNoOptional ==
    [umidade |-> <<300>>, ph_estimado |-> <<65>>,
     fosforo_presente |-> <<FALSE>>, potassio_presente |-> <<TRUE>>,
     bomba_ligada |-> <<FALSE>>, emergencia |-> <<FALSE>>]

KwargsValues == {KwargsTest, KwargsNoOptional}

\* the timestamp argument: absent, or any instant
TimestampValues == {<<>>} \cup {<<t>> : t \in 1..MaxTime}

\* the mappings given to update_leitura
CamposValues ==
    {[bomba_ligada |-> <<FALSE>>, decisao_logica_esp32 |-> <<"Manual">>],
     [emergencia |-> <<>>],
     [campo_inexistente |-> <<1>>]}
      \cup {[timestamp |-> <<t>>] : t \in 1..MaxTime}

\* more mappings given to update_leitura: a method of the instance among
\* the keys, the primary key among the keys
MoreCamposValues ==
    {[umidade |-> <<123>>, to_dict |-> <<0>>],
     [id |-> <<MaxId>>, timestamp |-> <<1>>]}
      \cup {[id |-> <<i>>] : i \in 1..MaxId}

\* the last call of the store: what it returned is <<>> for None (or when it
\* raised), <<"int", n>> for an id and <<"bool", b>> for True or False
NoCall == [op |-> "none", id |-> <<>>, ts |-> <<>>, ret |-> <<>>, raised |-> FALSE]

StoreInitial ==
    /\ leituras_sensores_phd_v2 = {}
    /\ utcnow = 1
    /\ last = NoCall
    /\ given = [i \in 1..MaxId |-> <<>>]

(* Operations of the store *)

\* time passes
Tick ==
    /\ utcnow < MaxTime
    /\ utcnow' = utcnow + 1
    /\ UNCHANGED <<leituras_sensores_phd_v2, last, given>>

\* add, commit, refresh of a new instance in a session: shared by
\* services.add_leitura and db_manager.add_leitura
AddCommitRefresh(opname, kwargs, ts) ==
    LET tbl == leituras_sensores_phd_v2
        obj == LeituraSensor(kwargs @@ [timestamp |-> ts])
        row == InsertRow(tbl, obj, utcnow)
        ok == Accepts(tbl, row)
    IN /\ ok => row.id[1] <= MaxId
       /\ leituras_sensores_phd_v2' = session_scope(tbl, ok, tbl \cup {row})
       /\ last' = [op |-> opname, id |-> <<>>, ts |-> row.timestamp,
                   ret |-> IF ok THEN <<"int", row.id[1]>> ELSE <<>>,
                   raised |-> ~ok]
       /\ given' = IF ok THEN [given EXCEPT ![row.id[1]] = <<kwargs>>]
                   ELSE given
       /\ UNCHANGED utcnow

\* services.add_leitura(**kwargs): returns the id, or raises
services_add_leitura ==
    /\ NextRowId(leituras_sensores_phd_v2) <= MaxId
    /\ \E kwargs \in KwargsValues, ts \in TimestampValues :
          AddCommitRefresh("services.add_leitura", kwargs, ts)

\* db_manager.add_leitura(leitura, db_session) with a session of its own:
\* returns the instance, or raises (the failed flush rolls the transaction
\* back)
db_manager_add_leitura ==
    /\ NextRowId(leituras_sensores_phd_v2) <= MaxId
    /\ \E kwargs \in KwargsValues, ts \in TimestampValues :
          AddCommitRefresh("db_manager.add_leitura", kwargs, ts)

\* services.update_leitura(leitura_id, campos): get the reading, setattr
\* every key of campos that hasattr finds, commit
update_leitura(leitura_id, campos) ==
    LET tbl == leituras_sensores_phd_v2
        found == RowsById(tbl, leitura_id)
    IN IF found = {}
       THEN /\ last' = [op |-> "services.update_leitura",
                        id |-> <<leitura_id>>, ts |-> <<>>,
                        ret |-> <<"bool", FALSE>>, raised |-> FALSE]
            /\ UNCHANGED <<leituras_sensores_phd_v2, utcnow, given>>
       ELSE LET old == CHOOSE r \in found : TRUE
                new == UpdatedRow(old, campos)
                ok == Accepts(tbl \ {old}, new)
            IN /\ leituras_sensores_phd_v2' =
                      session_scope(tbl, ok, (tbl \ {old}) \cup {new})
               /\ last' = [op |-> "services.update_leitura",
                           id |-> <<leitura_id>>,
                           ts |-> IF "timestamp" \in DOMAIN campos
                                  THEN campos["timestamp"] ELSE <<>>,
                           ret |-> IF ok THEN <<"bool", TRUE>> ELSE <<>>,
                           raised |-> ~ok]
               /\ given' = [given EXCEPT ![leitura_id] = <<>>]
               /\ UNCHANGED utcnow

\* services.update_leitura with value fields and timestamps
services_update_leitura ==
    \E leitura_id \in 1..MaxId, campos \in CamposValues :
        update_leitura(leitura_id, campos)

\* mutant: the delete is not committed
DeleteById_no_commit(opname, leitura_id) ==
    LET tbl == leituras_sensores_phd_v2
        found == RowsById(tbl, leitura_id)
    IN /\ leituras_sensores_phd_v2' = session_scope(tbl, FALSE, tbl \ found)
       /\ last' = [op |-> opname, id |-> <<leitura_id>>, ts |-> <<>>,
                   ret |-> <<"bool", found /= {}>>, raised |-> FALSE]
       /\ given' = [given EXCEPT ![leitura_id] = <<>>]
       /\ UNCHANGED utcnow

\* get, delete, commit of the row with that id: shared by
\* services.delete_leitura and db_manager.delete_leitura_por_id (a bulk
\* DELETE ... WHERE id = ? committed by session_scope)
DeleteById(opname, leitura_id) ==
    LET tbl == leituras_sensores_phd_v2
        found == RowsById(tbl, leitura_id)
    IN /\ leituras_sensores_phd_v2' = session_scope(tbl, TRUE, tbl \ found)
       /\ last' = [op |-> opname, id |-> <<leitura_id>>, ts |-> <<>>,
                   ret |-> <<"bool", found /= {}>>, raised |-> FALSE]
       /\ given' = [given EXCEPT ![leitura_id] = <<>>]
       /\ UNCHANGED utcnow

\* services.delete_leitura(leitura_id)
services_delete_leitura ==
    \E leitura_id \in 1..MaxId :
        DeleteById("services.delete_leitura", leitura_id)

\* db_manager.delete_leitura_por_id(leitura_id)
delete_leitura_por_id ==
    \E leitura_id \in 1..MaxId :
        DeleteById("db_manager.delete_leitura_por_id", leitura_id)

(* One call of services.update_leitura on a store *)

\* the stores the call is applied to: for every set of ids, readings that
\* were added with either set of values, their timestamps in the order of
\* their ids or in the opposite order
StoredReadings ==
    UNION {
      { {InsertRow({}, LeituraSensor(kw[i] @@ [id |-> <<i>>,
                        timestamp |-> <<IF up THEN i ELSE MaxId + 1 - i>>]), 1)
           : i \in ids}
        : kw \in [ids -> KwargsValues], up \in BOOLEAN }
      : ids \in SUBSET (1..MaxId) }

\* the calls enumerated
UpdateCalls ==
    {[fn |-> "update_leitura", leitura_id |-> i, campos |-> c] :
         i \in 1..MaxId, c \in CamposValues \cup MoreCamposValues}

\* the call of services.update_leitura(leitura_id, campos)
call_update_leitura ==
    /\ args.fn = "update_leitura" /\ ret = <<>>
    /\ update_leitura(args.leitura_id, args.campos)
    /\ ret' = IF last'.raised
              THEN <<[raised |-> TRUE, error |-> "IntegrityError"]>>
              ELSE <<[raised |-> FALSE, value |-> last'.ret[2]]>>
    /\ UNCHANGED <<args, setup_erp>>

----------------------------------------------------------------------------
(* The store of the unified application: app.py over sqlite3 *)

\* init_database: the columns declared NOT NULL in CREATE TABLE
AppNotNullColumns ==
    {"id", "umidade", "ph_estimado", "fosforo_presente", "potassio_presente",
     "bomba_ligada", "emergencia"}

\* the readings the pages of app.py add: a manual one, a simulated one, and
\* one without humidity
AppLeituraValues ==
    {[umidade |-> <<300>>, ph_estimado |-> <<65>>, fosforo_presente |-> <<TRUE>>,
      potassio_presente |-> <<TRUE>>, temperatura |-> <<250>>,
      bomba_ligada |-> <<FALSE>>, emergencia |-> <<FALSE>>,
      decisao_logica_esp32 |-> <<"Manual">>],
     [umidade |-> <<120>>, ph_estimado |-> <<78>>, fosforo_presente |-> <<FALSE>>,
      potassio_presente |-> <<TRUE>>, temperatura |-> <<310>>,
      bomba_ligada |-> <<TRUE>>, emergencia |-> <<TRUE>>,
      decisao_logica_esp32 |-> <<"Simulação">>],
     [umidade |-> <<>>, ph_estimado |-> <<65>>, fosforo_presente |-> <<TRUE>>,
      potassio_presente |-> <<TRUE>>, temperatura |-> <<250>>,
      bomba_ligada |-> <<FALSE>>, emergencia |-> <<FALSE>>,
      decisao_logica_esp32 |-> <<"Manual">>]}

\* the (campo, valor) pairs given to app.update_leitura
AppCampoValues ==
    {<<"umidade", <<0>>>>, <<"bomba_ligada", <<TRUE>>>>,
     <<"emergencia", <<>>>>, <<"campo_inexistente", <<1>>>>}
      \cup {<<"id", <<i>>>> : i \in 1..MaxId}

AppNoCall ==
    [op |-> "none", id |-> <<>>, args |-> <<>>, ret |-> <<>>,
     raised |-> FALSE, caught |-> FALSE]

AppInitial ==
    /\ leituras_sensores = {}
    /\ sqlite_sequence = 0

\* the constraints of leituras_sensores: NOT NULL columns and primary key
\* (its timestamp is not unique)
AppAccepts(tbl, row) ==
    /\ \A c \in AppNotNullColumns : row[c] /= <<>>
    /\ \A r \in tbl : r.id /= row.id

\* app.add_leitura: INSERT, commit, then `return conn.lastrowid`.  A
\* sqlite3 connection has no attribute lastrowid (a cursor has), so the
\* return statement raises AttributeError after the commit; the except
\* clause catches it and the function returns None.  An INSERT that fails
\* raises before the commit and the connection is closed without one.
app_add_leitura ==
    \E leitura \in AppLeituraValues, ts \in 1..MaxTime :
        LET tbl == leituras_sensores
            newid == (IF tbl = {} THEN sqlite_sequence
                      ELSE Max({r.id[1] : r \in tbl} \cup {sqlite_sequence})) + 1
            row == [c \in Columns |->
                       IF c = "id" THEN <<newid>>
                       ELSE IF c = "timestamp" THEN <<ts>>
                       ELSE bind(c, leitura[c])]
            ok == AppAccepts(tbl, row)
        IN /\ newid <= MaxId
           /\ leituras_sensores' = IF ok THEN tbl \cup {row} ELSE tbl
           /\ sqlite_sequence' = IF ok THEN newid ELSE sqlite_sequence
           /\ last' = [op |-> "app.add_leitura", id |-> <<>>,
                       args |-> <<leitura @@ [timestamp |-> <<ts>>]>>,
                       ret |-> <<>>, raised |-> FALSE, caught |-> TRUE]
           /\ UNCHANGED <<leituras_sensores_phd_v2, utcnow, given>>

\* app.update_leitura: UPDATE ... SET {campo} = ? WHERE id = ?, commit,
\* then `return conn.rowcount > 0`, which raises AttributeError after the
\* commit: the function returns False.  An unknown column or a violated
\* constraint raises before the commit.
app_update_leitura ==
    \E leitura_id \in 1..MaxId, cv \in AppCampoValues :
        LET tbl == leituras_sensores
            campo == cv[1]
            found == RowsById(tbl, leitura_id)
            new(r) == [c \in Columns |-> IF c = campo THEN bind(c, cv[2]) ELSE r[c]]
            ok == /\ campo \in Columns
                  /\ \A r \in found : AppAccepts(tbl \ {r}, new(r))
        IN /\ leituras_sensores' =
                  IF ok THEN (tbl \ found) \cup {new(r) : r \in found} ELSE tbl
           /\ last' = [op |-> "app.update_leitura", id |-> <<leitura_id>>,
                       args |-> cv, ret |-> <<FALSE>>,
                       raised |-> FALSE, caught |-> TRUE]
           /\ UNCHANGED <<sqlite_sequence, leituras_sensores_phd_v2, utcnow, given>>

\* app.delete_leitura: DELETE ... WHERE id = ?, commit, then
\* `return conn.rowcount > 0`, which raises AttributeError after the
\* commit: the function returns False.
app_delete_leitura ==
    \E leitura_id \in 1..MaxId :
        /\ leituras_sensores' =
              leituras_sensores \ RowsById(leituras_sensores, leitura_id)
        /\ last' = [op |-> "app.delete_leitura", id |-> <<leitura_id>>,
                    args |-> <<>>, ret |-> <<FALSE>>,
                    raised |-> FALSE, caught |-> TRUE]
        /\ UNCHANGED <<sqlite_sequence, leituras_sensores_phd_v2, utcnow, given>>

----------------------------------------------------------------------------
(* WokwiListener: the object, its loop and its engine *)

\* the threads that may be inside start(): the main thread, where main()
\* calls it and where the signal handlers run, and one more thread, where
\* a caller that has to go on calls it (start() blocks)
Threads == {"main", "worker"}

\* __init__: a listener is created stopped.  pc is where each thread is in
\* start(): "idle" outside of it, "set" before the two flags are set,
\* "while" and "if" before the two tests of the loop, "simulate",
\* "persist" and "sleep" before these calls, "finally" before the stop()
\* of the finally clause, "exit" once sys.exit(0) has ended the thread.
\* data and success are the locals of the loop.  stopping[t] records that
\* a stop() took effect while thread t was in the loop.
ListenerCreated ==
    [running |-> FALSE, simulation_active |-> FALSE,
     pc |-> [t \in Threads |-> "idle"],
     data |-> [t \in Threads |-> <<>>],
     success |-> [t \in Threads |-> <<>>],
     stopping |-> [t \in Threads |-> FALSE]]

\* no call of the engine yet
NoFirst == <<>>

\* the arguments of a direct call of _simulate_irrigation_logic: a critical
\* humidity and one the sensor simulation draws, an ideal and a high pH
DirectUmidade == {100, 300}
DirectPh == {60, 80}

\* simulate_wokwi_data: the sensor values drawn, humidity in [20.0, 45.0]
\* (30 + uniform(-10, 15)) and pH in [5.5, 7.5] (6.5 + uniform(-1, 1))
SimulatedUmidade == {300}
SimulatedPh == {60}

\* the keyword arguments persist_data gives services.add_leitura: the
\* fields of the simulated reading, its timestamp included
DataKwargs(data) ==
    [c \in DOMAIN data |-> <<data[c]>>] @@ [temperatura |-> <<250>>]

\* the first call of the engine is remembered, later ones are not
Remember(p, humidity, ph_, phosphorus, potassium, res) ==
    IF first = NoFirst
    THEN <<[params |-> p,
            args |-> <<humidity, ph_, phosphorus, potassium>>,
            ret |-> res]>>
    ELSE first

\* a direct call of WokwiListener._simulate_irrigation_logic
call_simulate_irrigation_logic ==
    \E humidity \in DirectUmidade, ph_ \in DirectPh, nutrients \in BOOLEAN :
        LET res == _simulate_irrigation_logic(params, humidity, ph_,
                                              nutrients, nutrients)
        IN /\ umidade' = humidity /\ ph' = ph_
           /\ fosforo' = nutrients /\ potassio' = nutrients
           /\ engine' = "_simulate_irrigation_logic"
           /\ out' = res
           /\ first' = Remember(params, humidity, ph_, nutrients, nutrients, res)
           /\ UNCHANGED <<params, chuva_mm, listener, manager, storeVars>>

\* thread t is between the while test and the end of an iteration
InLoop(l, t) == l.pc[t] \in {"while", "if", "simulate", "persist", "sleep"}

\* stop() on the listener l: nothing when it is not running
Stopped(l) ==
    IF ~l.running THEN l
    ELSE [l EXCEPT !.running = FALSE, !.simulation_active = FALSE,
                   !.stopping = [t \in Threads |-> @[t] \/ InLoop(l, t)]]

\* start() by thread t, up to its test of running: when the listener is
\* running the call returns at once
start(t) ==
    /\ listener.pc[t] = "idle"
    /\ ~listener.running
    /\ listener' = [listener EXCEPT !.pc[t] = "set"]
    /\ UNCHANGED <<engineVars, first, manager, storeVars>>

\* start(): self.running = True; self.simulation_active = True
start_set(t) ==
    /\ listener.pc[t] = "set"
    /\ listener' = [listener EXCEPT !.running = TRUE,
                                    !.simulation_active = TRUE,
                                    !.pc[t] = "while"]
    /\ UNCHANGED <<engineVars, first, manager, storeVars>>

\* stop(), from another caller (the manager's stop_listener)
stop ==
    /\ listener.running
    /\ listener' = Stopped(listener)
    /\ UNCHANGED <<engineVars, first, manager, storeVars>>

\* _signal_handler, run in the main thread on SIGINT or SIGTERM: stop(),
\* then sys.exit(0); SystemExit passes "except Exception", the finally
\* clause calls stop() once more, and the thread ends without having
\* stored the reading it held
_signal_handler ==
    /\ listener.pc["main"] /= "exit"
    /\ listener' = [Stopped(listener) EXCEPT !.pc["main"] = "exit",
                                             !.data["main"] = <<>>,
                                             !.success["main"] = <<>>,
                                             !.stopping["main"] = FALSE]
    /\ UNCHANGED <<engineVars, first, manager, storeVars>>

pause_simulation ==
    /\ listener.simulation_active
    /\ listener' = [listener EXCEPT !.simulation_active = FALSE]
    /\ UNCHANGED <<engineVars, first, manager, storeVars>>

resume_simulation ==
    /\ ~listener.simulation_active
    /\ listener' = [listener EXCEPT !.simulation_active = TRUE]
    /\ UNCHANGED <<engineVars, first, manager, storeVars>>

\* the loop of start(): while self.running
loop_while(t) ==
    /\ listener.pc[t] = "while"
    /\ listener' = [listener EXCEPT
                     !.pc[t] = IF listener.running THEN "if" ELSE "finally"]
    /\ UNCHANGED <<engineVars, first, manager, storeVars>>

\* the loop of start(): if self.simulation_active
loop_if(t) ==
    /\ listener.pc[t] = "if"
    /\ listener' = [listener EXCEPT
                     !.pc[t] = IF listener.simulation_active
                               THEN "simulate" ELSE "sleep"]
    /\ UNCHANGED <<engineVars, first, manager, storeVars>>

\* the loop of start(): data = self.simulate_wokwi_data(), which calls the
\* engine on the sensor values drawn
loop_simulate_wokwi_data(t) ==
    /\ listener.pc[t] = "simulate"
    /\ \E humidity \in SimulatedUmidade, ph_ \in SimulatedPh :
          LET data == simulate_wokwi_data(params, humidity, ph_, TRUE, TRUE)
              res == [pump |-> data.bomba_ligada,
                      reason |-> data.decisao_logica_esp32]
          IN /\ umidade' = humidity /\ ph' = ph_
             /\ fosforo' = TRUE /\ potassio' = TRUE
             /\ engine' = "simulate_wokwi_data"
             /\ out' = res
             /\ first' = Remember(params, humidity, ph_, TRUE, TRUE, res)
             /\ listener' = [listener EXCEPT
                              !.data[t] = <<data @@ [timestamp |-> utcnow]>>,
                              !.pc[t] = "persist"]
    /\ UNCHANGED <<params, chuva_mm, manager, storeVars>>

\* persist_data(data): adds the reading with the timestamp taken by
\* simulate_wokwi_data and returns True, or catches what
\* services.add_leitura raises and returns False; the thread goes to
\* where it leaves the call, given what the call returned
persist_data_raises(t, next) ==
    /\ listener.data[t] /= <<>>
    /\ AddCommitRefresh("services.add_leitura",
                        DataKwargs(listener.data[t][1]),
                        <<listener.data[t][1].timestamp>>)
    /\ listener' = [listener EXCEPT
                     !.data[t] = <<>>,
                     !.success[t] = IF last'.raised THEN <<>> ELSE <<TRUE>>,
                     !.pc[t] = IF last'.raised THEN "finally" ELSE next]

persist_data(t, next) ==
    /\ listener.data[t] /= <<>>
    /\ AddCommitRefresh("services.add_leitura",
                        DataKwargs(listener.data[t][1]),
                        <<listener.data[t][1].timestamp>>)
    /\ listener' = [listener EXCEPT !.data[t] = <<>>,
                                    !.success[t] = <<~last'.raised>>,
                                    !.pc[t] = next]

\* the loop of start(): success = self.persist_data(data)
loop_persist_data(t) ==
    /\ listener.pc[t] = "persist"
    /\ persist_data(t, "sleep")
    /\ UNCHANGED <<engineVars, first, manager>>

\* the loop of start(): the reading interval is taken from the
\* configuration and slept
loop_sleep(t) ==
    /\ listener.pc[t] = "sleep"
    /\ listener' = [listener EXCEPT !.success[t] = <<>>,
                                    !.pc[t] = "while"]
    /\ UNCHANGED <<engineVars, first, manager, storeVars>>

\* the loop of start(): the reading interval raises (a forecast_settings
\* that is no mapping, an interval that is no number), "except Exception"
\* logs it
loop_raises(t) ==
    /\ listener.pc[t] = "sleep"
    /\ listener' = [listener EXCEPT !.success[t] = <<>>,
                                    !.pc[t] = "finally"]
    /\ UNCHANGED <<engineVars, first, manager, storeVars>>

\* start(): finally: self.stop(), and start() returns
finally_stop(t) ==
    /\ listener.pc[t] = "finally"
    /\ listener' = [Stopped(listener) EXCEPT !.pc[t] = "idle",
                                             !.stopping[t] = FALSE]
    /\ UNCHANGED <<engineVars, first, manager, storeVars>>

\* a step of thread t inside start()
loop(t) ==
    \/ start_set(t)
    \/ loop_while(t)
    \/ loop_if(t)
    \/ loop_simulate_wokwi_data(t)
    \/ loop_persist_data(t)
    \/ loop_sleep(t)
    \/ finally_stop(t)

----------------------------------------------------------------------------
(* WokwiListenerManager: listeners by name *)

\* the names the callers use
ListenerNames == {"default", "estufa"}

\* WokwiListenerManager.__init__: self.listeners = {}.  listeners maps a
\* name to <<>> (not a key) or to <<the instance, the listener>>; created
\* counts the instances, handler is the instance whose _signal_handler
\* the process has registered, call is the last call and what it returned
ManagerCreated ==
    [listeners |-> [n \in ListenerNames |-> <<>>],
     created |-> 0,
     handler |-> <<>>,
     call |-> [fn |-> "none", name |-> "", ret |-> <<>>]]

\* WokwiListener() for self.listeners[name]: a new instance, created
\* stopped, whose __init__ registers its handler for SIGINT and SIGTERM
Registered(m, name) ==
    IF m.listeners[name] /= <<>> THEN m
    ELSE [m EXCEPT !.listeners[name] = <<m.created + 1, ListenerCreated>>,
                   !.created = @ + 1,
                   !.handler = <<m.created + 1>>]

\* create_listener(name): the listener of that name, created if there is
\* none
create_listener(name) ==
    /\ LET m == Registered(manager, name)
       IN manager' = [m EXCEPT !.call = [fn |-> "create_listener",
                                          name |-> name,
                                          ret |-> <<"instance",
                                                    m.listeners[name][1]>>]]
    /\ UNCHANGED <<engineVars, first, listener, storeVars>>

\* start_listener(name): creates the listener if there is none, then
\* start(), which returns at once when it is running and otherwise sets
\* the two flags and loops in the calling thread
start_listener(name) ==
    /\ LET m == Registered(manager, name)
           l == m.listeners[name][2]
       IN manager' =
             [m EXCEPT !.listeners[name][2] =
                          IF l.running THEN l
                          ELSE [l EXCEPT !.running = TRUE,
                                         !.simulation_active = TRUE,
                                         !.pc["worker"] = "while"],
                       !.call = [fn |-> "start_listener", name |-> name,
                                 ret |-> IF l.running THEN <<"bool", TRUE>>
                                         ELSE <<>>]]
    /\ UNCHANGED <<engineVars, first, listener, storeVars>>

\* stop_listener(name): False when there is no such name, otherwise
\* stop() and True
stop_listener_stops_all(name) ==
    /\ manager' =
          IF manager.listeners[name] = <<>>
          THEN [manager EXCEPT !.call = [fn |-> "stop_listener",
                                         name |-> name,
                                         ret |-> <<"bool", FALSE>>]]
          ELSE [manager EXCEPT
                  !.listeners = [n \in ListenerNames |->
                                   IF @[n] = <<>> THEN <<>>
                                   ELSE <<@[n][1], Stopped(@[n][2])>>],
                  !.call = [fn |-> "stop_listener", name |-> name,
                            ret |-> <<"bool", TRUE>>]]
    /\ UNCHANGED <<engineVars, first, listener, storeVars>>

stop_listener(name) ==
    /\ manager' =
          IF manager.listeners[name] = <<>>
          THEN [manager EXCEPT !.call = [fn |-> "stop_listener",
                                         name |-> name,
                                         ret |-> <<"bool", FALSE>>]]
          ELSE [manager EXCEPT
                  !.listeners[name][2] = Stopped(@),
                  !.call = [fn |-> "stop_listener", name |-> name,
                            ret |-> <<"bool", TRUE>>]]
    /\ UNCHANGED <<engineVars, first, listener, storeVars>>

\* get_listener_status(name): None when there is no such name, otherwise
\* get_status() (running, simulation_active; last_update is not modelled)
get_listener_status(name) ==
    /\ manager' =
          [manager EXCEPT
             !.call = [fn |-> "get_listener_status", name |-> name,
                       ret |-> IF manager.listeners[name] = <<>> THEN <<>>
                               ELSE LET l == manager.listeners[name][2]
                                    IN <<"status", l.running,
                                         l.simulation_active>>]]
    /\ UNCHANGED <<engineVars, first, listener, storeVars>>

\* the loop of start() in the thread that called start_listener(name):
\* one iteration of a running listener whose simulation is active
\* (simulate_wokwi_data, persist_data, sleep)
named_loop_iteration(name) ==
    /\ manager.listeners[name] /= <<>>
    /\ LET l == manager.listeners[name][2]
       IN /\ l.pc["worker"] = "while"
          /\ l.running /\ l.simulation_active
    /\ \E humidity \in SimulatedUmidade, ph_ \in SimulatedPh :
          LET data == simulate_wokwi_data(params, humidity, ph_, TRUE, TRUE)
              res == [pump |-> data.bomba_ligada,
                      reason |-> data.decisao_logica_esp32]
          IN /\ umidade' = humidity /\ ph' = ph_
             /\ fosforo' = TRUE /\ potassio' = TRUE
             /\ engine' = "simulate_wokwi_data"
             /\ out' = res
             /\ first' = Remember(params, humidity, ph_, TRUE, TRUE, res)
             /\ AddCommitRefresh("services.add_leitura",
                                 DataKwargs(data), <<utcnow>>)
    /\ UNCHANGED <<params, chuva_mm, listener, manager>>

\* the loop of start() in that thread finds running false: finally
\* stop(), start() returns and start_listener(name) returns True
named_loop_exit(name) ==
    /\ manager.listeners[name] /= <<>>
    /\ LET l == manager.listeners[name][2]
       IN /\ l.pc["worker"] = "while"
          /\ ~l.running
          /\ manager' =
                [manager EXCEPT
                   !.listeners[name][2] = [l EXCEPT !.pc["worker"] = "idle",
                                                    !.stopping["worker"] = FALSE],
                   !.call = [fn |-> "start_listener", name |-> name,
                             ret |-> <<"bool", TRUE>>]]
    /\ UNCHANGED <<engineVars, first, listener, storeVars>>

\* SIGINT or SIGTERM: the handler registered last runs, stop() of its
\* listener
named_signal_handler ==
    /\ manager.handler /= <<>>
    /\ \E n \in ListenerNames :
          /\ manager.listeners[n] /= <<>>
          /\ manager.listeners[n][1] = manager.handler[1]
          /\ manager.listeners[n][2].running
          /\ manager' = [manager EXCEPT !.listeners[n][2] = Stopped(@)]
    /\ UNCHANGED <<engineVars, first, listener, storeVars>>

----------------------------------------------------------------------------
(* config_manager: erp_config.yaml and get_config *)
(*                                                                         *)
(* A Python value is a node [type, val]: for a dict, val maps its keys to  *)
(* nodes; for a scalar, val is the value (a float is written in            *)
(* hundredths).  None is <<>>.  A YAML document is a node [tag, val] with  *)
(* the tag the dumper gives the type.                                      *)

PyFloat(x) == [type |-> "float", val |-> x]
PyInt(x) == [type |-> "int", val |-> x]
PyStr(x) == [type |-> "str", val |-> x]
PyBool(x) == [type |-> "bool", val |-> x]
PyDict(d) == [type |-> "dict", val |-> d]

\* a 'logica_esp32' section of thresholds given in tenths
LogicaSection(p) == PyDict([k \in DOMAIN p |-> PyFloat(p[k] * 10)])

\* get_config: default_config
default_config ==
    PyDict([db_name |-> PyStr("backend/data/farmtech.db"),
          table_name |-> PyStr("leituras_sensores_phd_v2"),
          logica_esp32 |-> LogicaSection(default_logica_esp32),
          forecast_settings |->
              PyDict([num_leituras_futuras |-> PyInt(6),
                    intervalo_leitura_minutos |-> PyInt(5),
                    alerta_forecast_ativo |-> PyBool(TRUE),
                    arima_p |-> PyInt(1), arima_d |-> PyInt(1), arima_q |-> PyInt(1)]),
          custo_settings |->
              PyDict([custo_agua_reais_por_m3 |-> PyFloat(500),
                    vazao_bomba_litros_por_hora |-> PyFloat(100000),
                    tempo_irrigacao_padrao_minutos |-> PyFloat(1500),
                    custo_energia_kwh |-> PyFloat(75),
                    potencia_bomba_kw |-> PyFloat(75)])])

\* the tag yaml.dump gives a Python type (a tuple gets a tag of its own)
TagOf(type) ==
    CASE type = "dict" -> "!!map"
      [] type = "str" -> "!!str"
      [] type = "float" -> "!!float"
      [] type = "int" -> "!!int"
      [] type = "bool" -> "!!bool"
      [] type = "tuple" -> "!!python/tuple"

\* the tags yaml.safe_load constructs, and the type it constructs
SafeTags == {"!!map", "!!str", "!!float", "!!int", "!!bool"}

TypeOf(tag) ==
    CASE tag = "!!map" -> "dict"
      [] tag = "!!str" -> "str"
      [] tag = "!!float" -> "float"
      [] tag = "!!int" -> "int"
      [] tag = "!!bool" -> "bool"

\* mutant: the dumper writes every scalar as a plain string
yaml_dump_as_str(v) ==
    [tag |-> "!!map",
     val |-> [k \in DOMAIN v.val |->
                 IF v.val[k].type = "dict"
                 THEN [tag |-> "!!map",
                       val |-> [j \in DOMAIN v.val[k].val |->
                                   [tag |-> "!!str",
                                    val |-> v.val[k].val[j].val]]]
                 ELSE [tag |-> "!!str", val |-> v.val[k].val]]]

\* yaml.dump(default_config, f): the document written for a dict of
\* scalars and of dicts of scalars
yaml_dump(v) ==
    [tag |-> TagOf(v.type),
     val |-> [k \in DOMAIN v.val |->
                 IF v.val[k].type = "dict"
                 THEN [tag |-> TagOf(v.val[k].type),
                       val |-> [j \in DOMAIN v.val[k].val |->
                                   [tag |-> TagOf(v.val[k].val[j].type),
                                    val |-> v.val[k].val[j].val]]]
                 ELSE [tag |-> TagOf(v.val[k].type), val |-> v.val[k].val]]]

\* every tag of the document is one safe_load constructs
SafeDocument(doc) ==
    /\ doc.tag \in SafeTags
    /\ \A k \in DOMAIN doc.val :
          /\ doc.val[k].tag \in SafeTags
          /\ doc.val[k].tag = "!!map"
                => \A j \in DOMAIN doc.val[k].val :
                      doc.val[k].val[j].tag \in SafeTags

\* yaml.safe_load(f) of a document whose tags are safe
safe_load(doc) ==
    [type |-> TypeOf(doc.tag),
     val |-> [k \in DOMAIN doc.val |->
                 IF doc.val[k].tag = "!!map"
                 THEN [type |-> TypeOf(doc.val[k].tag),
                       val |-> [j \in DOMAIN doc.val[k].val |->
                                   [type |-> TypeOf(doc.val[k].val[j].tag),
                                    val |-> doc.val[k].val[j].val]]]
                 ELSE [type |-> TypeOf(doc.val[k].tag), val |-> doc.val[k].val]]]

(* The states of the file *)

Missing == [state |-> "missing"]
\* the file exists and open() raises (a directory, no permission)
Unreadable == [state |-> "unreadable"]
\* the file exists and is no YAML: safe_load raises
Malformed == [state |-> "malformed"]
\* the file holds no document (empty, or comments only): safe_load
\* returns None
Empty == [state |-> "empty"]
Written(doc) == [state |-> "document", doc |-> doc]

\* the documents a user leaves in the file: other thresholds, no
\* 'logica_esp32' section, a 'logica_esp32' section of one threshold, an
\* empty mapping, a value with a Python tag
EditedConfigs ==
    {PyDict([db_name |-> PyStr("backend/data/farmtech.db"),
           logica_esp32 |-> LogicaSection(yaml_logica_esp32)]),
     PyDict([db_name |-> PyStr("farm.db")]),
     PyDict([logica_esp32 |-> LogicaSection([UMIDADE_CRITICA_BAIXA |-> 100])]),
     PyDict(<<>>)}

EditedDocuments ==
    {yaml_dump(c) : c \in EditedConfigs}
      \cup {[tag |-> "!!map",
             val |-> [db_name |-> [tag |-> "!!python/tuple", val |-> "farm.db"]]]}

\* the number of get_config calls followed
MaxCalls == 3

\* `config if config else default_config`: None and an empty dict are false
Falsy(v) == v = <<>> \/ DOMAIN v[1].val = {}

\* what the try block of get_config returns for a file that exists:
\* <<value>>, or <<>> when open() or safe_load() raises
LoadFile(file) ==
    CASE file.state = "empty" -> <<<<>>>>
      [] file.state = "document" /\ SafeDocument(file.doc)
            -> <<<<safe_load(file.doc)>>>>
      [] OTHER -> <<>>

\* config_manager.get_config(): the value returned and the file left
get_config_call(file) ==
    IF file.state /= "missing"
    THEN LET loaded == LoadFile(file)
         IN [ret |-> IF loaded = <<>> THEN default_config
                     ELSE IF Falsy(loaded[1]) THEN default_config
                     ELSE loaded[1][1],
             file |-> file]
    ELSE [ret |-> default_config, file |-> Written(yaml_dump(default_config))]

\* a call of get_config by one of its users (main_erp, web_app, services)
call_get_config ==
    /\ config.n < MaxCalls
    /\ LET r == get_config_call(erp_config_yaml)
       IN /\ config' = [n |-> config.n + 1, ret |-> <<r.ret>>]
          /\ erp_config_yaml' = r.file
    /\ UNCHANGED <<params, listener>>

\* WokwiListener(): self.config = get_config(), and self.params is its
\* 'logica_esp32' section or the thresholds written in __init__
WokwiListener_init ==
    /\ config.n < MaxCalls
    /\ LET r == get_config_call(erp_config_yaml)
       IN /\ config' = [n |-> config.n + 1, ret |-> <<r.ret>>]
          /\ erp_config_yaml' = r.file
          /\ params' = IF "logica_esp32" \in DOMAIN r.ret.val
                       THEN [k \in DOMAIN r.ret.val.logica_esp32.val |->
                                r.ret.val.logica_esp32.val[k].val \div 10]
                       ELSE default_logica_esp32
    /\ listener' = ListenerCreated

\* the user edits, empties, corrupts, protects or removes the file
EditFile ==
    /\ erp_config_yaml' \in
          {Written(d) : d \in EditedDocuments}
             \cup {Empty, Malformed, Unreadable, Missing}
    /\ erp_config_yaml' /= erp_config_yaml
    /\ UNCHANGED <<config, params, listener>>

ConfigIdle ==
    /\ erp_config_yaml = Missing
    /\ config = [n |-> 0, ret |-> <<>>]

----------------------------------------------------------------------------
(* setup_erp.main: the steps of the initial configuration *)

\* main: the list `steps`
steps ==
    <<"check_python", "install_dependencies", "setup_directories",
      "initialize_database", "populate_sample_data", "verify_system">>

\* how a call of a step can end: it returns True or False, it raises an
\* exception (setup_directories has no try block around os.makedirs,
\* install_dependencies catches two exception classes only), or the user
\* interrupts it
StepOutcomes(step_func) ==
    {"True", "KeyboardInterrupt"}
      \cup (IF step_func = "setup_directories" THEN {} ELSE {"False"})
      \cup (IF step_func \in {"install_dependencies", "setup_directories"}
            THEN {"Exception"} ELSE {})

SetupInitial ==
    [pc |-> "main", ran |-> <<>>, outcomes |-> <<>>, results |-> <<>>,
     report |-> <<>>, exit |-> <<>>]

\* main, before the loop: outside the directory of run_erp.py it exits
main_check_directory ==
    /\ setup_erp.pc = "main"
    /\ \E run_erp_exists \in BOOLEAN :
          setup_erp' = IF run_erp_exists
                       THEN [setup_erp EXCEPT !.pc = "steps"]
                       ELSE [setup_erp EXCEPT !.pc = "exit", !.exit = <<1>>]
    /\ UNCHANGED <<args, ret>>

\* mutant: an exception raised by a step is not caught by the loop
main_loop_exception_escapes ==
    /\ setup_erp.pc = "steps"
    /\ Len(setup_erp.results) < Len(steps)
    /\ LET step_func == steps[Len(setup_erp.results) + 1]
       IN \E outcome \in StepOutcomes(step_func) :
             setup_erp' =
                 IF outcome \in {"KeyboardInterrupt", "Exception"}
                 THEN [setup_erp EXCEPT
                          !.pc = "exit", !.exit = <<1>>,
                          !.ran = Append(@, step_func),
                          !.outcomes = Append(@, outcome)]
                 ELSE [setup_erp EXCEPT
                          !.ran = Append(@, step_func),
                          !.outcomes = Append(@, outcome),
                          !.results = Append(@, outcome = "True")]
    /\ UNCHANGED <<args, ret>>

\* main, one turn of `for step_func in steps`: the step is called and its
\* result appended; an exception appends False; KeyboardInterrupt exits
main_loop ==
    /\ setup_erp.pc = "steps"
    /\ Len(setup_erp.results) < Len(steps)
    /\ LET step_func == steps[Len(setup_erp.results) + 1]
       IN \E outcome \in StepOutcomes(step_func) :
             setup_erp' =
                 IF outcome = "KeyboardInterrupt"
                 THEN [setup_erp EXCEPT
                          !.pc = "exit", !.exit = <<1>>,
                          !.ran = Append(@, step_func),
                          !.outcomes = Append(@, outcome)]
                 ELSE [setup_erp EXCEPT
                          !.ran = Append(@, step_func),
                          !.outcomes = Append(@, outcome),
                          !.results = Append(@, outcome = "True")]
    /\ UNCHANGED <<args, ret>>

\* [i+1 for i, result in enumerate(results) if not result]
failed_steps(results) ==
    SelectSeq([i \in 1..Len(results) |-> i], LAMBDA i : ~results[i])

\* main, after the loop: the final report
main_report ==
    /\ setup_erp.pc = "steps"
    /\ Len(setup_erp.results) = Len(steps)
    /\ LET results == setup_erp.results
       IN setup_erp' =
              [setup_erp EXCEPT
                 !.pc = "done",
                 !.report =
                     IF \A i \in 1..Len(results) : results[i]
                     THEN <<[text |-> "CONFIGURAÇÃO CONCLUÍDA COM SUCESSO!",
                             failed_steps |-> <<>>]>>
                     ELSE <<[text |-> "CONFIGURAÇÃO INCOMPLETA",
                             failed_steps |-> failed_steps(results)]>>]
    /\ UNCHANGED <<args, ret>>

----------------------------------------------------------------------------
(* The analysis layer: calibration, anomalies, risk model *)

(* calibration.adc_to_ph.  A pH is written in units of 10^-5, a          *)
(* coefficient in tenths, and x = raw / adc_max in units of 10^-4.  Each *)
(* division rounds down, so the polynomial is within 0.004 pH of its     *)
(* exact value for the coefficients used here; the limits 0.0 and 14.0   *)
(* are exact.                                                            *)

Scale == 10000
Ph(tenths) == tenths * Scale

\* DEFAULT_PH_COEFFS: (a, b, c, d) = (1.5, 10.5, -5.0, 2.5)
DEFAULT_PH_COEFFS == <<15, 105, -50, 25>>

\* coefficients read from calib_coeffs.txt by _load_coeffs_from_file
FileCoeffs == {<<20, 150, -30, 10>>, <<-10, 80, 0, 0>>}

CoeffsValues == {DEFAULT_PH_COEFFS} \cup FileCoeffs

\* the default adc_max (12 bits) and a 10-bit converter
AdcMaxValues == {4095, 1023}

\* the largest raw value enumerated
MaxRaw == 5000

RawValues == {-100, MaxRaw} \cup (-1..4097)

Min2(a, b) == IF a < b THEN a ELSE b
Max2(a, b) == IF a > b THEN a ELSE b

\* mutant: the result is not limited to 0-14
adc_to_ph_unlimited(raw, coeffs, adc_max) ==
    IF raw < 0 THEN 0
    ELSE IF raw > adc_max THEN Ph(140)
    ELSE LET x == Max2(0, Min2((raw * Scale) \div adc_max, Scale))
             x2 == (x * x) \div Scale
             x3 == (x2 * x) \div Scale
             ph_ == coeffs[1] * Scale + coeffs[2] * x
                      + coeffs[3] * x2 + coeffs[4] * x3
         IN ph_

\* adc_to_ph(raw, coeffs, adc_max)
adc_to_ph(raw, coeffs, adc_max) ==
    IF raw < 0 THEN 0
    ELSE IF raw > adc_max THEN Ph(140)
    ELSE LET x == Max2(0, Min2((raw * Scale) \div adc_max, Scale))
             x2 == (x * x) \div Scale
             x3 == (x2 * x) \div Scale
             ph_ == coeffs[1] * Scale + coeffs[2] * x
                      + coeffs[3] * x2 + coeffs[4] * x3
         IN Max2(0, Min2(ph_, Ph(140)))

(* data_analysis.detect_anomalies on one column.  With n values of sum S *)
(* and sum of squares Q, mean = S/n and std(ddof=0) = sqrt(n*Q - S*S)/n, *)
(* so |x - mean| / std > z is (n*x - S)^2 > z^2 * (n*Q - S*S), in         *)
(* integers; a column of equal values gives 0/0, which is not above z.    *)
(* z_thresh is in tenths.                                                 *)

\* the longest column enumerated
MaxLen == 5

\* the values of the column and the thresholds enumerated
ColumnValues == {10, 100}
ZValues == {15, 18, 20, 30}

RECURSIVE SumSeq(_)
SumSeq(q) == IF q = <<>> THEN 0 ELSE Head(q) + SumSeq(Tail(q))

Squares(q) == [i \in 1..Len(q) |-> q[i] * q[i]]

\* mutant: the sample standard deviation (ddof=1) in place of the
\* population one
detect_anomalies_ddof1(col, z_thresh) ==
    LET n == Len(col)
        S == SumSeq(col)
        Q == SumSeq(Squares(col))
    IN [i \in 1..n |->
           100 * (n - 1) * (n * col[i] - S) * (n * col[i] - S)
               > z_thresh * z_thresh * n * (n * Q - S * S)]

\* detect_anomalies(df, col, z_thresh): the column `anomalia`
detect_anomalies(col, z_thresh) ==
    LET n == Len(col)
        S == SumSeq(col)
        Q == SumSeq(Squares(col))
    IN [i \in 1..n |->
           100 * (n * col[i] - S) * (n * col[i] - S)
               > z_thresh * z_thresh * (n * Q - S * S)]

(* ml_predictor.train_risk_model on a history, given by its column        *)
(* `emergencia`                                                           *)

\* the longest history enumerated
MaxRows == 4

NotEnoughData ==
    [raised |-> FALSE, modelo |-> <<>>, acuracia |-> 0,
     mensagem |-> "Não há dados suficientes de ambas as classes (emergência e não emergência) para treinar o modelo."]

\* train_risk_model(df): the results it can end with.  With both classes
\* the split and the grid search either train a model or raise (a class
\* with too few members)
train_risk_model(emergencia) ==
    IF emergencia = <<>>
    THEN {[raised |-> TRUE, error |-> "ValueError"]}
    ELSE IF Cardinality({emergencia[i] : i \in 1..Len(emergencia)}) < 2
    THEN {NotEnoughData}
    ELSE {[raised |-> FALSE, modelo |-> <<"RandomForestClassifier">>],
          [raised |-> TRUE, error |-> "ValueError"]}

(* WokwiListener.simulate_wokwi_data from the random draws on.  u is what *)
(* random.uniform(-10, 15) returned and v what random.uniform(-1, 1)      *)
(* returned, in tenths (uniform(a, b) lies in [a, b]); the thresholds    *)
(* are multiples of a tenth, so a draw between two tenths is compared    *)
(* as one of them is.                                                     *)

UniformHumidity == -100..150
UniformPh == -10..10

\* mutant: the base humidity is 25.0
sensor_humidity_base25(u) == Max2(0, Min2(1000, 250 + u))

\* humidity = max(0, min(100, base_humidity + random.uniform(-10, 15)))
sensor_humidity(u) == Max2(0, Min2(1000, 300 + u))

\* ph = max(0, min(14, base_ph + random.uniform(-1, 1)))
sensor_ph(v) == Max2(0, Min2(140, 65 + v))

RECURSIVE SeqsUpTo(_, _)
SeqsUpTo(S, n) ==
    IF n = 0 THEN {<<>>}
    ELSE LET shorter == SeqsUpTo(S, n - 1)
         IN shorter \cup {Append(q, x) : q \in shorter, x \in S}

(* data_analysis.analisar_historico_decisoes on the column               *)
(* decisao_logica_esp32 of a history.  A text is read as the sequence of *)
(* its characters.                                                      *)

\* the characters of the reasons WokwiListener writes (the fixed text of
\* each f-string) and of the reason of tests/test_db.py
Chars(text) ==
    CASE text = "EMERGÊNCIA: Umidade crítica" ->
          <<"E", "M", "E", "R", "G", "Ê", "N", "C", "I", "A", ":",
            " ", "U", "m", "i", "d", "a", "d", "e", " ", "c", "r",
            "í", "t", "i", "c", "a">>
      [] text = "pH crítico - Irrigação bloqueada" ->
          <<"p", "H", " ", "c", "r", "í", "t", "i", "c", "o", " ",
            "-", " ", "I", "r", "r", "i", "g", "a", "ç", "ã", "o",
            " ", "b", "l", "o", "q", "u", "e", "a", "d", "a">>
      [] text = "Umidade baixa, pH ideal, nutrientes OK" ->
          <<"U", "m", "i", "d", "a", "d", "e", " ", "b", "a", "i",
            "x", "a", ",", " ", "p", "H", " ", "i", "d", "e", "a",
            "l", ",", " ", "n", "u", "t", "r", "i", "e", "n", "t",
            "e", "s", " ", "O", "K">>
      [] text = "Umidade baixa, pH ideal, nutrientes parciais" ->
          <<"U", "m", "i", "d", "a", "d", "e", " ", "b", "a", "i",
            "x", "a", ",", " ", "p", "H", " ", "i", "d", "e", "a",
            "l", ",", " ", "n", "u", "t", "r", "i", "e", "n", "t",
            "e", "s", " ", "p", "a", "r", "c", "i", "a", "i", "s">>
      [] text = "Umidade baixa, pH ideal, sem nutrientes" ->
          <<"U", "m", "i", "d", "a", "d", "e", " ", "b", "a", "i",
            "x", "a", ",", " ", "p", "H", " ", "i", "d", "e", "a",
            "l", ",", " ", "s", "e", "m", " ", "n", "u", "t", "r",
            "i", "e", "n", "t", "e", "s">>
      [] text = "Umidade baixa, mas pH não ideal" ->
          <<"U", "m", "i", "d", "a", "d", "e", " ", "b", "a", "i",
            "x", "a", ",", " ", "m", "a", "s", " ", "p", "H", " ",
            "n", "ã", "o", " ", "i", "d", "e", "a", "l">>
      [] text = "Umidade alta - Irrigação desnecessária" ->
          <<"U", "m", "i", "d", "a", "d", "e", " ", "a", "l", "t",
            "a", " ", "-", " ", "I", "r", "r", "i", "g", "a", "ç",
            "ã", "o", " ", "d", "e", "s", "n", "e", "c", "e", "s",
            "s", "á", "r", "i", "a">>
      [] text = "Condições normais - Bomba desligada" ->
          <<"C", "o", "n", "d", "i", "ç", "õ", "e", "s", " ", "n",
            "o", "r", "m", "a", "i", "s", " ", "-", " ", "B", "o",
            "m", "b", "a", " ", "d", "e", "s", "l", "i", "g", "a",
            "d", "a">>
      [] text = "EMERGENCIA: Umidade Baixa" ->
          <<"E", "M", "E", "R", "G", "E", "N", "C", "I", "A", ":",
            " ", "U", "m", "i", "d", "a", "d", "e", " ", "B", "a",
            "i", "x", "a">>
      [] text = "" -> <<>>

\* the tokens analisar_historico_decisoes searches
TokenEmergencia == <<"E", "M", "E", "R", "G", "E", "N", "C", "I", "A">>
TokenPhCritico == <<"p", "H", " ", "c", "r", "i", "t", "i", "c", "o">>

\* case=False: a character without its case
Lower(c) ==
    CASE c = "A" -> "a"
      [] c = "B" -> "b"
      [] c = "C" -> "c"
      [] c = "D" -> "d"
      [] c = "E" -> "e"
      [] c = "F" -> "f"
      [] c = "G" -> "g"
      [] c = "H" -> "h"
      [] c = "I" -> "i"
      [] c = "J" -> "j"
      [] c = "K" -> "k"
      [] c = "L" -> "l"
      [] c = "M" -> "m"
      [] c = "N" -> "n"
      [] c = "O" -> "o"
      [] c = "P" -> "p"
      [] c = "Q" -> "q"
      [] c = "R" -> "r"
      [] c = "S" -> "s"
      [] c = "T" -> "t"
      [] c = "U" -> "u"
      [] c = "V" -> "v"
      [] c = "W" -> "w"
      [] c = "X" -> "x"
      [] c = "Y" -> "y"
      [] c = "Z" -> "z"
      [] c = "Á" -> "á"
      [] c = "Ã" -> "ã"
      [] c = "Ç" -> "ç"
      [] c = "Ê" -> "ê"
      [] c = "Í" -> "í"
      [] c = "Õ" -> "õ"
      [] OTHER -> c

\* Series.str.contains(pat, case=False) on one text: pat occurs in it,
\* the case of the letters apart
str_contains(text, pat) ==
    \E i \in 1..(Len(text) - Len(pat) + 1) :
        \A j \in 1..Len(pat) : Lower(text[i + j - 1]) = Lower(pat[j])

\* the values of the column enumerated: None, the reasons of the two
\* critical branches and of the normal one, the reason of tests/test_db.py
DecisaoValues ==
    {<<>>, <<"EMERGÊNCIA: Umidade crítica">>,
     <<"pH crítico - Irrigação bloqueada">>,
     <<"Condições normais - Bomba desligada">>,
     <<"EMERGENCIA: Umidade Baixa">>}

\* analisar_historico_decisoes(df): the results it can return (among the
\* most frequent values, value_counts().idxmax() returns one)
analisar_historico_decisoes(coluna) ==
    IF coluna = <<>>
    THEN {[total_emergencias |-> 0, ph_criticos |-> 0,
           decisao_mais_comum |-> <<>>]}
    ELSE LET decisoes == [i \in 1..Len(coluna) |->
                             IF coluna[i] = <<>> THEN "" ELSE coluna[i][1]]
             sum(pat) == Cardinality({i \in 1..Len(decisoes) :
                                        str_contains(Chars(decisoes[i]), pat)})
             value_counts(t) ==
                 Cardinality({i \in 1..Len(decisoes) : decisoes[i] = t})
             values == {decisoes[i] : i \in 1..Len(decisoes)}
         IN {[total_emergencias |-> sum(TokenEmergencia),
              ph_criticos |-> sum(TokenPhCritico),
              decisao_mais_comum |-> <<t>>] :
                t \in {x \in values :
                         \A y \in values : value_counts(y) <= value_counts(x)}}

\* the calls enumerated
AnalysisCalls ==
    {[fn |-> "adc_to_ph", raw |-> r, coeffs |-> c, adc_max |-> m] :
         r \in RawValues, c \in CoeffsValues, m \in AdcMaxValues}
      \cup {[fn |-> "detect_anomalies", col |-> q, z_thresh |-> z] :
               q \in SeqsUpTo(ColumnValues, MaxLen), z \in ZValues}
      \cup {[fn |-> "train_risk_model", emergencia |-> q] :
               q \in SeqsUpTo(BOOLEAN, MaxRows)}
      \cup {[fn |-> "analisar_historico_decisoes", coluna |-> q] :
               q \in SeqsUpTo(DecisaoValues, MaxRows)}
      \cup {[fn |-> "simulate_wokwi_data", u |-> u, v |-> v,
              phosphorus |-> f, potassium |-> k] :
               u \in UniformHumidity, v \in UniformPh,
               f \in BOOLEAN, k \in BOOLEAN}

call_adc_to_ph ==
    /\ args.fn = "adc_to_ph" /\ ret = <<>>
    /\ ret' = <<adc_to_ph(args.raw, args.coeffs, args.adc_max)>>
    /\ UNCHANGED <<args, setup_erp>>

call_detect_anomalies ==
    /\ args.fn = "detect_anomalies" /\ ret = <<>>
    /\ ret' = <<detect_anomalies(args.col, args.z_thresh)>>
    /\ UNCHANGED <<args, setup_erp>>

call_train_risk_model ==
    /\ args.fn = "train_risk_model" /\ ret = <<>>
    /\ \E r \in train_risk_model(args.emergencia) : ret' = <<r>>
    /\ UNCHANGED <<args, setup_erp>>

\* WokwiListener.simulate_wokwi_data() of a listener with the thresholds
\* params, for the draws of args
call_simulate_wokwi_data ==
    /\ args.fn = "simulate_wokwi_data" /\ ret = <<>>
    /\ ret' = <<simulate_wokwi_data(params, sensor_humidity(args.u),
                                    sensor_ph(args.v),
                                    args.phosphorus, args.potassium)>>
    /\ UNCHANGED <<args, setup_erp>>

call_analisar_historico_decisoes ==
    /\ args.fn = "analisar_historico_decisoes" /\ ret = <<>>
    /\ \E r \in analisar_historico_decisoes(args.coluna) : ret' = <<r>>
    /\ UNCHANGED <<args, setup_erp>>

ToolsIdle ==
    /\ setup_erp = SetupInitial
    /\ args = [fn |-> "none"]
    /\ ret = <<>>

ListenerIdle ==
    /\ listener = ListenerCreated
    /\ first = NoFirst
    /\ manager = ManagerCreated

EnginesIdle ==
    /\ params = default_logica_esp32
    /\ umidade = 0 /\ ph = 0 /\ fosforo = FALSE /\ potassio = FALSE
    /\ chuva_mm = 0
    /\ engine = "none"
    /\ out = [pump |-> FALSE]

----------------------------------------------------------------------------
(* The engines applied to one set of inputs *)

InitEngines ==
    /\ params \in get_config
    /\ umidade \in UmidadeValues(params)
    /\ ph \in PhValues(params)
    /\ fosforo \in BOOLEAN
    /\ potassio \in BOOLEAN
    /\ chuva_mm \in ChuvaValues
    /\ engine = "none"
    /\ out = [pump |-> FALSE]
    /\ StoreInitial
    /\ AppInitial
    /\ ListenerIdle /\ ConfigIdle /\ ToolsIdle

\* the listener builds a reading from the sensor values
CallListener ==
    /\ engine = "none"
    /\ engine' = "listener"
    /\ out' = simulate_wokwi_data(params, umidade, ph, fosforo, potassio)
    /\ UNCHANGED <<params, umidade, ph, fosforo, potassio, chuva_mm, storeVars, appVars,
                   listenerVars, configVars, toolVars>>

\* main_erp, page Simulação
CallDataAnalysis ==
    /\ engine = "none"
    /\ engine' = "data_analysis"
    /\ out' = simular_logica_irrigacao(umidade, ph, params)
    /\ UNCHANGED <<params, umidade, ph, fosforo, potassio, chuva_mm, storeVars, appVars,
                   listenerVars, configVars, toolVars>>

\* legacy dashboard, simulate_advanced_scenario
CallDashboard ==
    /\ engine = "none"
    /\ engine' = "dashboard"
    /\ out' = simular_logica_irrigacao_app(umidade, ph, fosforo, potassio,
                                           params, chuva_mm)
    /\ UNCHANGED <<params, umidade, ph, fosforo, potassio, chuva_mm, storeVars, appVars,
                   listenerVars, configVars, toolVars>>

CallServicesWhatIf ==
    /\ engine = "none"
    /\ engine' = "services"
    /\ out' = services_run_what_if_simulation(params, umidade, ph, fosforo, potassio)
    /\ UNCHANGED <<params, umidade, ph, fosforo, potassio, chuva_mm, storeVars, appVars,
                   listenerVars, configVars, toolVars>>

CallAppWhatIf ==
    /\ engine = "none"
    /\ engine' = "app"
    /\ out' = app_run_what_if_simulation(umidade, ph, fosforo, potassio)
    /\ UNCHANGED <<params, umidade, ph, fosforo, potassio, chuva_mm, storeVars, appVars,
                   listenerVars, configVars, toolVars>>

NextEngines ==
    \/ CallListener
    \/ CallDataAnalysis
    \/ CallDashboard
    \/ CallServicesWhatIf
    \/ CallAppWhatIf

SpecEngines == InitEngines /\ [][NextEngines]_vars

----------------------------------------------------------------------------
(* The canonical store under any sequence of its operations *)

InitStore ==
    /\ EnginesIdle /\ StoreInitial /\ AppInitial
    /\ ListenerIdle /\ ConfigIdle /\ ToolsIdle

NextStore ==
    \/ Tick /\ UNCHANGED <<engineVars, appVars, listenerVars, configVars, toolVars>>
    \/ services_add_leitura /\ UNCHANGED <<engineVars, appVars, listenerVars, configVars, toolVars>>
    \/ db_manager_add_leitura /\ UNCHANGED <<engineVars, appVars, listenerVars, configVars, toolVars>>
    \/ services_update_leitura /\ UNCHANGED <<engineVars, appVars, listenerVars, configVars, toolVars>>
    \/ services_delete_leitura /\ UNCHANGED <<engineVars, appVars, listenerVars, configVars, toolVars>>
    \/ delete_leitura_por_id /\ UNCHANGED <<engineVars, appVars, listenerVars, configVars, toolVars>>

SpecStore == InitStore /\ [][NextStore]_vars

----------------------------------------------------------------------------
(* services.update_leitura applied once to a store *)

InitUpdate ==
    /\ EnginesIdle /\ AppInitial /\ ListenerIdle /\ ConfigIdle
    /\ leituras_sensores_phd_v2 \in StoredReadings
    /\ utcnow = 1
    /\ last = NoCall
    /\ given = [i \in 1..MaxId |-> <<>>]
    /\ setup_erp = SetupInitial
    /\ args \in UpdateCalls
    /\ ret = <<>>

NextUpdate ==
    \/ call_update_leitura /\ UNCHANGED <<engineVars, appVars, listenerVars, configVars>>

SpecUpdate == InitUpdate /\ [][NextUpdate]_vars

----------------------------------------------------------------------------
(* The store of the unified application under any sequence of its calls *)

InitApp ==
    /\ EnginesIdle
    /\ leituras_sensores_phd_v2 = {}
    /\ utcnow = 1
    /\ last = AppNoCall
    /\ given = [i \in 1..MaxId |-> <<>>]
    /\ AppInitial
    /\ ListenerIdle /\ ConfigIdle /\ ToolsIdle

NextApp ==
    \/ app_add_leitura /\ UNCHANGED <<engineVars, listenerVars, configVars, toolVars>>
    \/ app_update_leitura /\ UNCHANGED <<engineVars, listenerVars, configVars, toolVars>>
    \/ app_delete_leitura /\ UNCHANGED <<engineVars, listenerVars, configVars, toolVars>>

SpecApp == InitApp /\ [][NextApp]_vars

----------------------------------------------------------------------------
(* The listener: its loop, its controls and direct calls of its engine *)

InitListener ==
    /\ params \in get_config
    /\ umidade = 0 /\ ph = 0 /\ fosforo = FALSE /\ potassio = FALSE
    /\ chuva_mm = 0
    /\ engine = "none"
    /\ out = [pump |-> FALSE]
    /\ StoreInitial /\ AppInitial
    /\ ListenerIdle /\ ConfigIdle /\ ToolsIdle

\* main() of wokwi_listener.py: the main thread calls start()
NextListener ==
    \/ call_simulate_irrigation_logic /\ UNCHANGED <<appVars, configVars, toolVars>>
    \/ start("main") /\ UNCHANGED <<appVars, configVars, toolVars>>
    \/ loop("main") /\ UNCHANGED <<appVars, configVars, toolVars>>
    \/ loop_raises("main") /\ UNCHANGED <<appVars, configVars, toolVars>>
    \/ stop /\ UNCHANGED <<appVars, configVars, toolVars>>
    \/ _signal_handler /\ UNCHANGED <<appVars, configVars, toolVars>>
    \/ pause_simulation /\ UNCHANGED <<appVars, configVars, toolVars>>
    \/ resume_simulation /\ UNCHANGED <<appVars, configVars, toolVars>>
    \/ Tick /\ UNCHANGED <<engineVars, appVars, listenerVars, configVars, toolVars>>

SpecListener == InitListener /\ [][NextListener]_vars

----------------------------------------------------------------------------
(* One listener, start() called in two threads, and its controls *)

InitThreads == InitListener

NextThreads ==
    \/ \E t \in Threads : start(t) /\ UNCHANGED <<appVars, configVars, toolVars>>
    \/ \E t \in Threads : loop(t) /\ UNCHANGED <<appVars, configVars, toolVars>>
    \/ \E t \in Threads : loop_raises(t) /\ UNCHANGED <<appVars, configVars, toolVars>>
    \/ stop /\ UNCHANGED <<appVars, configVars, toolVars>>
    \/ _signal_handler /\ UNCHANGED <<appVars, configVars, toolVars>>
    \/ pause_simulation /\ UNCHANGED <<appVars, configVars, toolVars>>
    \/ resume_simulation /\ UNCHANGED <<appVars, configVars, toolVars>>
    \/ Tick /\ UNCHANGED <<engineVars, appVars, listenerVars, configVars, toolVars>>

SpecThreads == InitThreads /\ [][NextThreads]_vars

\* a thread that is inside start() goes on running: the interpreter
\* switches threads every few milliseconds, persist_data and sleep return
SpecThreadsFair ==
    SpecThreads /\ \A t \in Threads : WF_vars(loop(t) /\ UNCHANGED <<appVars, configVars, toolVars>>)

----------------------------------------------------------------------------
(* The manager and its named listeners *)

InitManager == InitListener

NextManager ==
    \/ \E name \in ListenerNames : create_listener(name) /\ UNCHANGED <<appVars, configVars, toolVars>>
    \/ \E name \in ListenerNames : start_listener(name) /\ UNCHANGED <<appVars, configVars, toolVars>>
    \/ \E name \in ListenerNames : stop_listener(name) /\ UNCHANGED <<appVars, configVars, toolVars>>
    \/ \E name \in ListenerNames : get_listener_status(name) /\ UNCHANGED <<appVars, configVars, toolVars>>
    \/ \E name \in ListenerNames : named_loop_iteration(name) /\ UNCHANGED <<appVars, configVars, toolVars>>
    \/ \E name \in ListenerNames : named_loop_exit(name) /\ UNCHANGED <<appVars, configVars, toolVars>>
    \/ named_signal_handler /\ UNCHANGED <<appVars, configVars, toolVars>>
    \/ Tick /\ UNCHANGED <<engineVars, appVars, listenerVars, configVars, toolVars>>

SpecManager == InitManager /\ [][NextManager]_vars

----------------------------------------------------------------------------
(* The configuration file and the callers of get_config *)

configFrame ==
    <<umidade, ph, fosforo, potassio, chuva_mm, engine, out, first, manager,
      storeVars, appVars, toolVars>>

InitConfig ==
    /\ EnginesIdle /\ StoreInitial /\ AppInitial
    /\ ListenerIdle /\ ConfigIdle /\ ToolsIdle

NextConfig ==
    \/ call_get_config /\ UNCHANGED configFrame
    \/ WokwiListener_init /\ UNCHANGED configFrame
    \/ EditFile /\ UNCHANGED configFrame

SpecConfig == InitConfig /\ [][NextConfig]_vars

----------------------------------------------------------------------------
(* One run of setup_erp.main *)

toolFrame == <<engineVars, storeVars, appVars, listenerVars, configVars>>

InitSetup == InitConfig

NextSetup ==
    \/ main_check_directory /\ UNCHANGED toolFrame
    \/ main_loop /\ UNCHANGED toolFrame
    \/ main_report /\ UNCHANGED toolFrame

SpecSetup == InitSetup /\ [][NextSetup]_vars

----------------------------------------------------------------------------
(* The functions of the analysis layer applied to one set of arguments *)

InitAnalysis ==
    /\ EnginesIdle /\ StoreInitial /\ AppInitial
    /\ ListenerIdle /\ ConfigIdle
    /\ setup_erp = SetupInitial
    /\ args \in AnalysisCalls
    /\ ret = <<>>

NextAnalysis ==
    \/ call_adc_to_ph /\ UNCHANGED toolFrame
    \/ call_detect_anomalies /\ UNCHANGED toolFrame
    \/ call_train_risk_model /\ UNCHANGED toolFrame
    \/ call_simulate_wokwi_data /\ UNCHANGED toolFrame
    \/ call_analisar_historico_decisoes /\ UNCHANGED toolFrame

SpecAnalysis == InitAnalysis /\ [][NextAnalysis]_vars


----------------------------------------------------------------------------
(* Properties of the engines, checked under SpecEngines *)

PhCritico(p, ph_) == ph_ < p.PH_CRITICO_MINIMO \/ ph_ > p.PH_CRITICO_MAXIMO
PhIdeal(p, ph_) == p.PH_IDEAL_MINIMO <= ph_ /\ ph_ <= p.PH_IDEAL_MAXIMO

\* C1: in the listener, a humidity below UMIDADE_CRITICA_BAIXA switches the
\* pump on and raises the emergency flag of the reading, whatever the pH
\* (inside or outside the critical bounds) and the nutrient flags.
C1_CriticalHumidityWins ==
    (engine = "listener" /\ umidade < params.UMIDADE_CRITICA_BAIXA)
        => (out.bomba_ligada /\ out.emergencia)

C1_Witness ==
    /\ engine = "listener"
    /\ umidade < params.UMIDADE_CRITICA_BAIXA
    /\ ph > params.PH_CRITICO_MAXIMO
    /\ out.bomba_ligada /\ out.emergencia

\* C2: in the listener, a pH outside the critical bounds with a humidity
\* that is not critical keeps the pump off and raises the emergency flag,
\* whatever the nutrient flags.
C2_CriticalPhBlocks ==
    (engine = "listener" /\ PhCritico(params, ph)
        /\ umidade >= params.UMIDADE_CRITICA_BAIXA)
        => (~out.bomba_ligada /\ out.emergencia)

C2_Witness ==
    /\ engine = "listener"
    /\ ph < params.PH_CRITICO_MINIMO
    /\ umidade >= params.UMIDADE_CRITICA_BAIXA
    /\ umidade < params.UMIDADE_MINIMA_PARA_IRRIGAR
    /\ ~fosforo
    /\ ~out.bomba_ligada /\ out.emergencia

\* C3: in the what-if engine of the current dashboard, a pH outside the
\* critical bounds with a humidity that is not critical yields a decision
\* that keeps the pump off, with emergencia = true.
C3_DashboardCriticalPhBlocks ==
    (engine = "data_analysis" /\ PhCritico(params, ph)
        /\ umidade >= params.UMIDADE_CRITICA_BAIXA)
        => (out.decisao \notin DecisaoLiga /\ out.emergencia)

\* C4: in the legacy dashboard engine a humidity below
\* UMIDADE_CRITICA_BAIXA switches the pump on whatever the forecast rain,
\* and the rain override turns the pump off only when the base decision
\* came from the low-humidity / ideal-pH branch.
C4_RainNeverSuppressesEmergency ==
    engine = "dashboard" =>
        /\ umidade < params.UMIDADE_CRITICA_BAIXA => out.pump
        /\ (out.reason = "DECISÃO BASE: Ligar. AJUSTE CLIMA: DESLIGAR (Chuva).")
              => /\ ~out.pump
                 /\ umidade >= params.UMIDADE_CRITICA_BAIXA
                 /\ umidade < params.UMIDADE_MINIMA_PARA_IRRIGAR
                 /\ PhIdeal(params, ph)

\* C5: in the listener, with a humidity in [UMIDADE_CRITICA_BAIXA,
\* UMIDADE_MINIMA_PARA_IRRIGAR) and a pH within the critical bounds, the
\* pump is on exactly when PH_IDEAL_MINIMO <= pH <= PH_IDEAL_MAXIMO; the
\* nutrient flags do not change the pump decision and the emergency flag is
\* false.
C5_LowHumidityBranch ==
    (engine = "listener"
        /\ umidade >= params.UMIDADE_CRITICA_BAIXA
        /\ umidade < params.UMIDADE_MINIMA_PARA_IRRIGAR
        /\ ~PhCritico(params, ph))
        => /\ out.bomba_ligada <=> PhIdeal(params, ph)
           /\ ~out.emergencia
           /\ \A f, k \in BOOLEAN :
                 _simulate_irrigation_logic(params, umidade, ph, f, k).pump
                     = out.bomba_ligada

C5_Witness ==
    /\ engine = "listener"
    /\ umidade >= params.UMIDADE_CRITICA_BAIXA
    /\ umidade < params.UMIDADE_MINIMA_PARA_IRRIGAR
    /\ ph = params.PH_IDEAL_MAXIMO
    /\ ~fosforo /\ ~potassio
    /\ out.bomba_ligada
    /\ out.decisao_logica_esp32 = "Umidade baixa, pH ideal, sem nutrientes"

\* C6: in the listener, with a humidity of UMIDADE_MINIMA_PARA_IRRIGAR or
\* more (in the normal band or above UMIDADE_ALTA_PARAR_IRRIGACAO) and a pH
\* within the critical bounds, the pump is off and the emergency flag is
\* false, whatever the nutrient flags.
C6_NoIrrigationAtAdequateHumidity ==
    (engine = "listener"
        /\ umidade >= params.UMIDADE_MINIMA_PARA_IRRIGAR
        /\ ~PhCritico(params, ph))
        => (~out.bomba_ligada /\ ~out.emergencia)

C6_Witness ==
    /\ engine = "listener"
    /\ umidade = params.UMIDADE_MINIMA_PARA_IRRIGAR
    /\ PhIdeal(params, ph)
    /\ fosforo /\ potassio
    /\ ~out.bomba_ligada /\ ~out.emergencia

\* C7: for the same inputs and the same thresholds, the what-if engines of
\* services and of the unified application return the pump decision of the
\* listener's engine.
C7_WhatIfEnginesAgree ==
    /\ engine = "services"
          => out.pump = _simulate_irrigation_logic(
                            params, umidade, ph, fosforo, potassio).pump
    /\ (engine = "app" /\ params = CONFIG)
          => out.pump = _simulate_irrigation_logic(
                            params, umidade, ph, fosforo, potassio).pump

----------------------------------------------------------------------------
(* Properties of the canonical store, checked under SpecStore *)

AddOps == {"services.add_leitura", "db_manager.add_leitura"}

\* the instance obj holds, in every value field, what kwargs gave
SameValues(obj, kwargs) ==
    \A f \in ValueFields :
        obj[f] = (IF f \in DOMAIN kwargs THEN kwargs[f] ELSE <<>>)

\* the last call was an add that succeeded
Added == last.op \in AddOps /\ ~last.raised

\* the row of the reading the last call added
AddedRows == RowsById(leituras_sensores_phd_v2, last.ret[2])

\* a reading is read back by id with the values it was added with, as long
\* as no update or delete of its id was issued
ReadBackById ==
    \A i \in 1..MaxId :
        given[i] /= <<>> =>
            /\ RowsById(leituras_sensores_phd_v2, i) /= {}
            /\ \A r \in RowsById(leituras_sensores_phd_v2, i) :
                   SameValues(Loaded(r), given[i][1])

\* C8 as stated: an add assigns a non-null id, and the reading is read back
\* with the values given, by id and as the single most recent reading of
\* get_ultimas_leituras.
C8_RoundTripAsStated ==
    /\ ReadBackById
    /\ Added =>
          /\ last.ret /= <<>>
          /\ LET recent == get_ultimas_leituras(leituras_sensores_phd_v2, 1)
             IN /\ Len(recent) = 1
                /\ recent[1].id = <<last.ret[2]>>
                /\ SameValues(recent[1], given[last.ret[2]][1])

\* C8 amended: an add assigns a non-null id; the reading is read back by id
\* with the values given as long as no update or delete of that id
\* intervened; get_ultimas_leituras(1) returns it, with the values given,
\* when no stored reading has a later timestamp.
C8_RoundTrip ==
    /\ ReadBackById
    /\ Added =>
          /\ last.ret /= <<>>
          /\ given[last.ret[2]] /= <<>>
          /\ \A r \in AddedRows :
                (\A q \in leituras_sensores_phd_v2 :
                      q.timestamp[1] <= r.timestamp[1])
                => LET recent == get_ultimas_leituras(leituras_sensores_phd_v2, 1)
                   IN /\ Len(recent) = 1
                      /\ recent[1].id = <<last.ret[2]>>
                      /\ SameValues(recent[1], given[last.ret[2]][1])

\* a reading with a NULL temperature and reason was added to a store that
\* holds another reading, and is the most recent one
C8_Witness ==
    /\ Added
    /\ last.op = "db_manager.add_leitura"
    /\ Cardinality(leituras_sensores_phd_v2) = 2
    /\ "temperatura" \notin DOMAIN given[last.ret[2]][1]
    /\ \A r \in AddedRows :
          /\ r.fosforo_presente = <<0>> /\ r.potassio_presente = <<1>>
          /\ \A q \in leituras_sensores_phd_v2 :
                q.timestamp[1] <= r.timestamp[1]

\* the step changes the record of the last call (calls of one operation
\* return values of one type, so the operations are compared first)
CallRecorded ==
    \/ last'.op /= last.op
    \/ last'.id /= last.id
    \/ last'.ts /= last.ts
    \/ last'.raised /= last.raised
    \/ last'.ret /= last.ret

UniqueTimestamps(tbl) ==
    \A r1, r2 \in tbl : r1 /= r2 => r1.timestamp /= r2.timestamp

\* the timestamp the row of the call would take: the argument, or the
\* column default for an add without one
CallTimestamp(call) == call.ts

\* the call would give a second stored reading a timestamp already taken
WouldDuplicate(tbl, call, now) ==
    /\ call.op \in AddOps \cup {"services.update_leitura"}
    /\ call.op = "services.update_leitura" => RowsById(tbl, call.id[1]) /= {}
    /\ \E r \in tbl : /\ r.timestamp = CallTimestamp(call)
                      /\ r.id /= call.id

\* C9: no two stored readings ever have the same timestamp; an add or an
\* update that would produce a duplicate timestamp raises and leaves the
\* stored readings unchanged, and so does every call that raises.
C9_TimestampUnique ==
    [][ /\ UniqueTimestamps(leituras_sensores_phd_v2')
        /\ (CallRecorded \/ leituras_sensores_phd_v2' /= leituras_sensores_phd_v2)
             => /\ last'.raised
                    => leituras_sensores_phd_v2' = leituras_sensores_phd_v2
                /\ WouldDuplicate(leituras_sensores_phd_v2, last', utcnow)
                    => /\ last'.raised
                       /\ leituras_sensores_phd_v2' = leituras_sensores_phd_v2
      ]_vars

\* an add has failed on a timestamp that a stored reading holds
C9_Witness ==
    /\ last.op = "services.add_leitura"
    /\ last.raised
    /\ leituras_sensores_phd_v2 /= {}
    /\ WouldDuplicate(leituras_sensores_phd_v2, last, utcnow)

----------------------------------------------------------------------------
(* Properties of the store of the unified application, under SpecApp *)

\* the call reported a failure: None from add, False from update or delete
AppReportsFailure(call) ==
    \/ call.op = "app.add_leitura" /\ call.ret = <<>>
    \/ call.op \in {"app.update_leitura", "app.delete_leitura"}
          /\ call.ret = <<FALSE>>

\* the step changes the record of the last call of app.py
AppCallRecorded ==
    \/ last'.op /= last.op
    \/ last'.id /= last.id
    \/ last'.args /= last.args

\* C10: a call of app.add_leitura, app.update_leitura or app.delete_leitura
\* that reports a failure after a caught exception leaves the table
\* leituras_sensores as it was, and a call that inserted, changed or removed
\* a row reports success.
C10_FailuresAreNoOps ==
    [][ (last'.op /= "none"
            /\ (AppCallRecorded \/ leituras_sensores' /= leituras_sensores))
          => /\ (AppReportsFailure(last') /\ last'.caught)
                    => leituras_sensores' = leituras_sensores
             /\ leituras_sensores' /= leituras_sensores
                    => ~AppReportsFailure(last')
      ]_vars

----------------------------------------------------------------------------
(* Properties of the listener, checked under SpecListener *)

ListenerEngines == {"_simulate_irrigation_logic", "simulate_wokwi_data"}

\* the step is a call of the engine: directly, or by simulate_wokwi_data
\* (which leaves the reading it built in the loop)
EngineCalled ==
    /\ engine' \in ListenerEngines
    /\ \/ <<umidade, ph, fosforo, potassio, engine, out>>'
             /= <<umidade, ph, fosforo, potassio, engine, out>>
       \/ \E t \in Threads : /\ listener.data[t] = <<>>
                             /\ listener'.data[t] /= <<>>

\* the arguments and thresholds of the call are those of the first call
SameAsFirst ==
    /\ first /= NoFirst
    /\ first[1].params = params
    /\ first[1].args = <<umidade, ph, fosforo, potassio>>

----------------------------------------------------------------------------
(* Properties of the analysis layer, checked under SpecAnalysis *)

Returned(fn) == args.fn = fn /\ ret /= <<>>

\* the series of scenario 5
Scenario5 == <<10, 10, 10, 10, 100>>

\* |x - mean| > z * std on the deviations themselves: with
\* d[j] = n*x[j] - S, n^2 * variance is the mean of the d[j]^2
AboveThreshold(col, i, z_thresh) ==
    LET n == Len(col)
        S == SumSeq(col)
        dev == [j \in 1..n |-> n * col[j] - S]
    IN 100 * n * dev[i] * dev[i] > z_thresh * z_thresh * SumSeq(Squares(dev))

\* C12 as stated: on [10, 10, 10, 10, 100] with z_thresh = 3.0 exactly the
\* last element is flagged.
C12_ScenarioAsStated ==
    (Returned("detect_anomalies") /\ args.col = Scenario5 /\ args.z_thresh = 30)
        => /\ ret[1][5]
           /\ \A i \in 1..4 : ~ret[1][i]

\* C12 amended: a row is flagged iff |x - mean| > z_thresh * (population
\* standard deviation); on [10, 10, 10, 10, 100] the z-score of the last
\* element is exactly 2.0, so it is flagged iff z_thresh < 2.0 and with
\* z_thresh = 3.0 no element is flagged; the first four are not flagged.
C12_Scenario ==
    Returned("detect_anomalies") =>
        /\ Len(ret[1]) = Len(args.col)
        /\ \A i \in 1..Len(args.col) :
               ret[1][i] <=> AboveThreshold(args.col, i, args.z_thresh)
        /\ args.col = Scenario5 =>
               /\ ret[1][5] <=> args.z_thresh < 20
               /\ \A i \in 1..4 : ~ret[1][i]
               /\ args.z_thresh = 30 => \A i \in 1..5 : ~ret[1][i]

C12_Witness ==
    /\ Returned("detect_anomalies")
    /\ args.col = Scenario5 /\ args.z_thresh = 30
    /\ ret[1] = <<FALSE, FALSE, FALSE, FALSE, FALSE>>

\* the history holds at most one of the two classes
OneClassAtMost(emergencia) ==
    Cardinality({emergencia[i] : i \in 1..Len(emergencia)}) < 2

\* C13: for a history of any length, zero rows included, without both an
\* emergency and a non-emergency reading, train_risk_model returns the
\* 'not enough data' result (modelo None, acuracia 0, a mensagem) and does
\* not raise.
C13_InsufficientDataResult ==
    (Returned("train_risk_model") /\ OneClassAtMost(args.emergencia))
        => /\ ~ret[1].raised
           /\ ret[1] = NotEnoughData

Abs(x) == IF x < 0 THEN 0 - x ELSE x

\* tests/test_calibration.py: the samples (raw, pH in tenths)
CalibrationSamples ==
    {<<0, 15>>, <<1023, 40>>, <<2047, 68>>, <<3071, 95>>, <<4095, 140>>}

DefaultCalibration ==
    args.coeffs = DEFAULT_PH_COEFFS /\ args.adc_max = 4095

\* C16: with the default coefficients adc_to_ph is within 0.2 pH of each
\* calibration sample: raw 0 -> 1.5, 1023 -> 4.0, 2047 -> 6.8,
\* 3071 -> 9.5, 4095 -> 14.0.
C16_CalibrationAccuracy ==
    (Returned("adc_to_ph") /\ DefaultCalibration) =>
        \A sample \in CalibrationSamples :
            args.raw = sample[1] => Abs(ret[1] - Ph(sample[2])) <= Ph(2)

\* C17: adc_to_ph returns a pH in [0.0, 14.0] for every raw value; exactly
\* 0.0 for a raw value below 0 and exactly 14.0 for one above adc_max; and
\* with the default coefficients a pH between 5.0 and 9.0 for raw 2047.
C17_CalibrationRange ==
    Returned("adc_to_ph") =>
        /\ 0 <= ret[1] /\ ret[1] <= Ph(140)
        /\ args.raw < 0 => ret[1] = 0
        /\ args.raw > args.adc_max => ret[1] = Ph(140)
        /\ (args.raw = 2047 /\ DefaultCalibration)
              => (Ph(50) <= ret[1] /\ ret[1] <= Ph(90))

\* a raw value inside the range whose polynomial is above 14 is limited
C17_Witness ==
    /\ Returned("adc_to_ph")
    /\ args.raw = args.adc_max
    /\ args.coeffs = <<20, 150, -30, 10>>
    /\ ret[1] = Ph(140)

----------------------------------------------------------------------------
(* Properties of get_config, checked under SpecConfig *)

\* the step is a call of get_config
GetConfigCalled == config'.n = config.n + 1

\* the file is missing, empty, or cannot be read
NothingToLoad(file) ==
    \/ file.state \in {"missing", "empty", "unreadable", "malformed"}
    \/ file.state = "document" /\ ~SafeDocument(file.doc)

C29_ThresholdsAlwaysPresent ==
    /\ config.ret /= <<>>
          => /\ "logica_esp32" \in DOMAIN config.ret[1].val
             /\ DOMAIN config.ret[1].val.logica_esp32.val
                   = DOMAIN default_logica_esp32
    /\ DOMAIN params = DOMAIN default_logica_esp32

----------------------------------------------------------------------------
(* Properties of setup_erp.main, checked under SpecSetup *)

\* C15: the steps run in the order of the list; a step that returns False
\* or raises an exception other than KeyboardInterrupt is recorded as
\* failed and the loop goes on to the next step (main exits only before
\* the first step or on KeyboardInterrupt); the report comes after all six
\* steps, says success iff every step returned True, and otherwise lists
\* exactly the 1-based positions of the failed steps, in order.
C15_StepsIndependent ==
    LET m == setup_erp
        n == Len(m.outcomes)
        failed == {i \in 1..n : m.outcomes[i] /= "True"}
    IN /\ m.ran = SubSeq(steps, 1, n)
       /\ \A i \in 1..n :
              m.outcomes[i] /= "KeyboardInterrupt"
                 => /\ i <= Len(m.results)
                    /\ m.results[i] = (m.outcomes[i] = "True")
       /\ m.pc = "exit"
              => (n = 0 \/ m.outcomes[n] = "KeyboardInterrupt")
       /\ (m.pc = "steps" /\ Len(m.results) < Len(steps))
              => ENABLED main_loop
       /\ m.report /= <<>>
              => /\ m.ran = steps /\ Len(m.results) = Len(steps)
                 /\ (m.report[1].text = "CONFIGURAÇÃO CONCLUÍDA COM SUCESSO!")
                       <=> failed = {}
                 /\ failed /= {}
                       => LET listed == m.report[1].failed_steps
                          IN /\ {listed[k] : k \in 1..Len(listed)} = failed
                             /\ \A k \in 1..(Len(listed) - 1) :
                                    listed[k] < listed[k + 1]

\* steps 2 and 3 failed, one by returning False and one by raising, the
\* four others ran and succeeded, and the report lists 2 and 3
C15_Witness ==
    /\ setup_erp.pc = "done"
    /\ setup_erp.outcomes = <<"True", "False", "Exception", "True", "True", "True">>
    /\ setup_erp.report[1].failed_steps = <<2, 3>>

----------------------------------------------------------------------------
(* More properties of the engines, checked under SpecEngines *)

\* the decision of the rules before any rain adjustment
BasePump ==
    _simulate_irrigation_logic(params, umidade, ph, fosforo, potassio).pump

\* C18: in simular_logica_irrigacao_app, when the base decision is to
\* irrigate and chuva_mm > 1.0 the pump is off and the reason names the
\* base decision and the rain; for chuva_mm <= 1.0 (1.0 included) the pump
\* decision is the base decision; when the base decision is off, no rain
\* value switches the pump on.
C18_RainOverrideThreshold ==
    engine = "dashboard" =>
        /\ (BasePump /\ chuva_mm > 10)
              => /\ ~out.pump
                 /\ out.reason = "DECISÃO BASE: Ligar. AJUSTE CLIMA: DESLIGAR (Chuva)."
                 /\ out.base \in {"EMERGÊNCIA: Umidade crítica",
                                  "Umid. baixa, pH ideal, P&K OK",
                                  "Umid. baixa, pH ideal, P ou K OK",
                                  "Umid. baixa, pH ideal, Nutrientes Ausentes"}
        /\ chuva_mm <= 10 => out.pump = BasePump
        /\ ~BasePump => ~out.pump

\* the base decision irrigates and the forecast is exactly 1.0 mm
C18_Witness ==
    /\ engine = "dashboard"
    /\ chuva_mm = 10
    /\ umidade >= params.UMIDADE_CRITICA_BAIXA
    /\ BasePump
    /\ out.pump

\* C19: data_analysis.simular_logica_irrigacao compares the pH as the
\* specified algorithm does: with a humidity that is not critical a pH
\* equal to PH_CRITICO_MINIMO or PH_CRITICO_MAXIMO is no emergency; with a
\* humidity in [UMIDADE_CRITICA_BAIXA, UMIDADE_MINIMA_PARA_IRRIGAR) a pH
\* equal to PH_IDEAL_MINIMO or PH_IDEAL_MAXIMO switches the pump on; on
\* these inputs it decides as _simulate_irrigation_logic does.
C19_DashboardBoundaries ==
    (engine = "data_analysis" /\ umidade >= params.UMIDADE_CRITICA_BAIXA) =>
        /\ ph \in {params.PH_CRITICO_MINIMO, params.PH_CRITICO_MAXIMO}
              => /\ ~out.emergencia
                 /\ (out.decisao \in DecisaoLiga) = BasePump
        /\ (ph \in {params.PH_IDEAL_MINIMO, params.PH_IDEAL_MAXIMO}
              /\ umidade < params.UMIDADE_MINIMA_PARA_IRRIGAR)
              => /\ out.decisao \in DecisaoLiga
                 /\ (out.decisao \in DecisaoLiga) = BasePump

----------------------------------------------------------------------------
(* More properties of the canonical store, checked under SpecStore *)

DeleteOps == {"services.delete_leitura", "db_manager.delete_leitura_por_id"}

\* the step is a call of one of the two deletes
DeleteCalled ==
    /\ last'.op \in DeleteOps
    /\ CallRecorded \/ leituras_sensores_phd_v2' /= leituras_sensores_phd_v2

\* C20: services.delete_leitura(id) and db_manager.delete_leitura_por_id(id)
\* return True iff a reading with that id was stored before the call;
\* afterwards no reading with that id is stored and every other reading is
\* unchanged; for an id that is not stored they return False and leave the
\* store unchanged.
C20_DeleteById ==
    [][ DeleteCalled =>
          LET before == leituras_sensores_phd_v2
              after == leituras_sensores_phd_v2'
              id == last'.id[1]
          IN /\ ~last'.raised
             /\ last'.ret = <<"bool", RowsById(before, id) /= {}>>
             /\ RowsById(after, id) = {}
             /\ after = {r \in before : r.id /= <<id>>}
             /\ RowsById(before, id) = {} => after = before
      ]_vars

\* a stored reading was deleted and another one is still stored
C20_Witness ==
    /\ last.op \in DeleteOps
    /\ last.ret = <<"bool", TRUE>>
    /\ RowsById(leituras_sensores_phd_v2, last.id[1]) = {}
    /\ leituras_sensores_phd_v2 /= {}

----------------------------------------------------------------------------
(* Properties of services.update_leitura, checked under SpecUpdate *)

\* the step is the call of services.update_leitura
UpdateCalled == args.fn = "update_leitura" /\ ret = <<>> /\ ret' /= <<>>

Ids(tbl) == {r.id : r \in tbl}

\* the rows `after` are the rows `before` with exactly the columns that
\* campos names set, in the reading old, to the values given
FieldsSet(before, after, old, campos) ==
    \E new \in after :
        /\ \A c \in Columns :
              IF c \in DOMAIN campos
              THEN result(c, new[c]) = campos[c]
              ELSE new[c] = old[c]
        /\ after \ {new} = before \ {old}

\* the values of campos break a constraint of the table: None for a column
\* that is NOT NULL, or the timestamp or the id of another reading
BreaksConstraint(before, old, campos) ==
    \/ \E c \in DOMAIN campos \cap NotNullColumns : campos[c] = <<>>
    \/ /\ "timestamp" \in DOMAIN campos
       /\ \E r \in before \ {old} : r.timestamp = campos["timestamp"]
    \/ /\ "id" \in DOMAIN campos
       /\ \E r \in before \ {old} : r.id = campos["id"]

\* C21 as stated: services.update_leitura(id, campos) returns False and
\* leaves the store unchanged when no reading has that id; when the reading
\* exists it returns True, sets exactly the fields named in campos that are
\* columns, and leaves its other fields and every other reading unchanged.
C21_FieldLevelUpdateAsStated ==
    [][ UpdateCalled =>
          LET before == leituras_sensores_phd_v2
              after == leituras_sensores_phd_v2'
              found == RowsById(before, args.leitura_id)
          IN IF found = {}
             THEN last'.ret = <<"bool", FALSE>> /\ after = before
             ELSE /\ ~last'.raised
                  /\ last'.ret = <<"bool", TRUE>>
                  /\ \A old \in found :
                        FieldsSet(before, after, old, args.campos)
      ]_vars

\* C21: services.update_leitura(id, campos) returns False and leaves the
\* store unchanged when no reading has that id.  When the reading exists
\* and the values of campos break no constraint of the table, it returns
\* True, sets exactly the fields named in campos that are columns and
\* leaves the other fields and every other reading unchanged; when they
\* break one (None for a NOT NULL column, the timestamp or the id of
\* another reading) it raises and leaves the store unchanged.
C21_FieldLevelUpdate ==
    [][ UpdateCalled =>
          LET before == leituras_sensores_phd_v2
              after == leituras_sensores_phd_v2'
              found == RowsById(before, args.leitura_id)
              campos == args.campos
          IN IF found = {}
             THEN /\ ~last'.raised
                  /\ last'.ret = <<"bool", FALSE>>
                  /\ after = before
             ELSE \A old \in found :
                     IF BreaksConstraint(before, old, campos)
                     THEN last'.raised /\ after = before
                     ELSE /\ ~last'.raised
                          /\ last'.ret = <<"bool", TRUE>>
                          /\ FieldsSet(before, after, old, campos)
      ]_vars

\* an update has set two fields of one of two stored readings
C21_Witness ==
    /\ last.op = "services.update_leitura"
    /\ last.ret = <<"bool", TRUE>>
    /\ "decisao_logica_esp32" \in DOMAIN args.campos
    /\ Cardinality(leituras_sensores_phd_v2) = 2
    /\ \E r \in RowsById(leituras_sensores_phd_v2, last.id[1]) :
          /\ r.decisao_logica_esp32 = <<"Manual">>
          /\ r.bomba_ligada = <<0>>
          /\ r.umidade = <<655>>

\* C30: services.update_leitura never changes the identity of readings:
\* for every id and every campos (whatever keys it names, 'id' included)
\* the set of ids stored after the call is the set stored before it, and
\* the reading that had the given id still has it.
C30_UpdateKeepsIdentity ==
    [][ UpdateCalled =>
          LET before == leituras_sensores_phd_v2
              after == leituras_sensores_phd_v2'
          IN /\ Ids(after) = Ids(before)
             /\ RowsById(before, args.leitura_id) /= {}
                   => RowsById(after, args.leitura_id) /= {}
      ]_vars

----------------------------------------------------------------------------
(* Properties of the sensor simulation, checked under SpecAnalysis *)

\* C28: with the default thresholds every reading simulate_wokwi_data
\* generates has bomba_ligada false and emergencia false, its humidity in
\* [20.0, 45.0] and its pH in [5.5, 7.5].
C28_SimulatedReadingsAreQuiet ==
    (Returned("simulate_wokwi_data") /\ params = default_logica_esp32)
        => /\ 200 <= ret[1].umidade /\ ret[1].umidade <= 450
           /\ 55 <= ret[1].ph_estimado /\ ret[1].ph_estimado <= 75
           /\ ~ret[1].bomba_ligada
           /\ ~ret[1].emergencia

\* the reading generated for the lowest humidity and the highest pH drawn
C28_Witness ==
    /\ Returned("simulate_wokwi_data")
    /\ params = default_logica_esp32
    /\ args.u = -100 /\ args.v = 10
    /\ ret[1].umidade = 200 /\ ret[1].ph_estimado = 75
    /\ ~ret[1].bomba_ligada

----------------------------------------------------------------------------
(* Properties of the history of decisions, checked under SpecAnalysis *)

\* the reasons of the critical-humidity and of the critical-pH branch of
\* WokwiListener._simulate_irrigation_logic
ReasonCriticalHumidity ==
    _simulate_irrigation_logic(default_logica_esp32, 100, 60, TRUE, TRUE).reason
ReasonCriticalPh ==
    _simulate_irrigation_logic(default_logica_esp32, 400, 80, TRUE, TRUE).reason

\* every reason of the column was written by the listener's engine
WrittenByEngine(coluna) ==
    \A i \in 1..Len(coluna) :
        /\ coluna[i] /= <<>>
        /\ \E h \in {100, 180, 400, 700}, p \in {60, 70, 80}, f, k \in BOOLEAN :
              coluna[i][1] =
                 _simulate_irrigation_logic(default_logica_esp32, h, p, f, k).reason

Count(coluna, reason) ==
    Cardinality({i \in 1..Len(coluna) : coluna[i] = <<reason>>})

\* C26: the reason of the critical-humidity branch contains the token
\* 'EMERGENCIA' and the reason of the critical-pH branch contains
\* 'pH critico', so that analisar_historico_decisoes reports
\* total_emergencias and ph_criticos equal to the number of stored reasons
\* written by those branches of WokwiListener._simulate_irrigation_logic.
C26_ReasonTokens ==
    (Returned("analisar_historico_decisoes") /\ WrittenByEngine(args.coluna))
        => /\ \A i \in 1..Len(args.coluna) :
                 /\ args.coluna[i] = <<ReasonCriticalHumidity>>
                       => str_contains(Chars(args.coluna[i][1]), TokenEmergencia)
                 /\ args.coluna[i] = <<ReasonCriticalPh>>
                       => str_contains(Chars(args.coluna[i][1]), TokenPhCritico)
           /\ ret[1].total_emergencias
                 = Count(args.coluna, ReasonCriticalHumidity)
           /\ ret[1].ph_criticos = Count(args.coluna, ReasonCriticalPh)

----------------------------------------------------------------------------
(* Properties of start() and stop(), checked under SpecThreads *)

\* thread t takes the step of start() that leaves the place pc
Leaves(t, pc) ==
    /\ listener.pc[t] = pc
    /\ listener'.pc[t] \notin {pc, "exit"}

\* thread t returns from start()
Returns(t) == Leaves(t, "finally") /\ listener'.pc[t] = "idle"

\* the step of thread t is a persist_data that added its reading
Persists(t) ==
    /\ Leaves(t, "persist")
    /\ leituras_sensores_phd_v2' /= leituras_sensores_phd_v2

\* C22: a thread enters start() past the test of running only when the
\* listener is not running; stop() changes nothing on a listener that is
\* not running; a step that ends running ends simulation_active too; and
\* when start() returns, running and simulation_active are both false.
C22_StartStopStateMachine ==
    [][ /\ \A t \in Threads :
              listener.pc[t] = "idle" /\ listener'.pc[t] = "set"
                 => ~listener.running
        /\ ~listener.running => Stopped(listener) = listener
        /\ listener.running /\ ~listener'.running
              => ~listener'.simulation_active
        /\ \A t \in Threads :
              Returns(t) => /\ ~listener'.running
                            /\ ~listener'.simulation_active
      ]_vars

\* C23: when services.add_leitura raises inside persist_data, persist_data
\* returns False, the stored readings and running are unchanged, and the
\* thread goes on to the sleep of the loop (from where a running listener
\* takes the next reading).
C23_PersistFailureNotFatal ==
    [][ \A t \in Threads :
          Leaves(t, "persist") /\ last'.raised
             => /\ listener'.success[t] = <<FALSE>>
                /\ leituras_sensores_phd_v2' = leituras_sensores_phd_v2
                /\ listener'.running = listener.running
                /\ listener'.pc[t] = "sleep"
      ]_vars

\* persist_data has returned False, and the running listener holds the
\* next reading, about to persist it
C23_Witness ==
    /\ last.op = "services.add_leitura" /\ last.raised
    /\ listener.running
    /\ \E t \in Threads :
          /\ listener.pc[t] = "persist"
          /\ listener.success[t] = <<>>
          /\ listener.data[t] /= <<>>
          /\ \E r \in leituras_sensores_phd_v2 :
                r.timestamp = <<listener.data[t][1].timestamp>>

\* C27: a reading is added only by the persist_data of an iteration that
\* passed the tests of running and simulation_active, and only while no
\* stop() has taken effect: the listener is running, and no stop() has
\* returned since the thread entered the iteration.
C27_NoReadingAfterStop ==
    [][ \A t \in Threads :
          Persists(t) => /\ listener.data[t] /= <<>>
                         /\ listener.running
                         /\ ~listener.stopping[t]
      ]_vars

----------------------------------------------------------------------------
(* Shutdown, checked under SpecThreadsFair *)

\* C24: once a stop() has taken effect while a thread is in the loop of
\* start(), that thread begins no further iteration (its next test of
\* running fails) and it eventually leaves start(); and the thread the
\* signal handler ends leaves a listener that is not running.
C24_ShutdownIsLive ==
    /\ [][ /\ \A t \in Threads :
                listener.stopping[t] /\ Leaves(t, "while")
                   => listener'.pc[t] = "finally"
           /\ listener.pc["main"] /= "exit" /\ listener'.pc["main"] = "exit"
                 => ~listener'.running
         ]_vars
    /\ \A t \in Threads :
          listener.stopping[t] ~> listener.pc[t] \in {"idle", "exit"}

----------------------------------------------------------------------------
(* Properties of the manager, checked under SpecManager *)

\* the step is a call of fn on the name n
ManagerCalled(fn, n) ==
    /\ manager'.call /= manager.call
    /\ manager'.call.fn = fn
    /\ manager'.call.name = n

\* C25: create_listener, stop_listener and get_listener_status on one
\* name leave every other name as it was: registered or not, the same
\* instance, the same running and simulation_active.
C25_NamedListenersIndependent ==
    [][ \A n \in ListenerNames :
          \A fn \in {"create_listener", "stop_listener",
                      "get_listener_status"} :
             ManagerCalled(fn, n)
                => \A m \in ListenerNames \ {n} :
                      manager'.listeners[m] = manager.listeners[m]
      ]_vars

\* stop_listener has stopped one listener while the listener of another
\* name, a different instance, is running
C25_Witness ==
    /\ manager.call.fn = "stop_listener"
    /\ manager.call.ret = <<"bool", TRUE>>
    /\ \E m \in ListenerNames \ {manager.call.name} :
          /\ manager.listeners[manager.call.name] /= <<>>
          /\ ~manager.listeners[manager.call.name][2].running
          /\ manager.listeners[m] /= <<>>
          /\ manager.listeners[m][1] /= manager.listeners[manager.call.name][1]
          /\ manager.listeners[m][2].running
          /\ manager.listeners[m][2].simulation_active

============================================================================
